---- MODULE Spec2Model ----
(***************************************************************************)
(* The pipelined PBF reader of osmium/io/detail/pbf_input_format.hpp.      *)
(*                                                                         *)
(* Threads: the consumer (open(), read(), the destructor), the reader      *)
(* thread (parse_osm_data) and the workers of the thread pool.  Shared:    *)
(* the result queue m_queue of futures, the atomic flag m_done, the pool's *)
(* work queue.  The input is a stream of frames (length prefix,            *)
(* BlobHeader, Blob) that the source delivers as the reader asks for it.   *)
(***************************************************************************)
EXTENDS Integers, Sequences, FiniteSets, TLC

\* ------------------------------------------------------------------------
\* Bounds of the model
\* ------------------------------------------------------------------------

\* data frames the source delivers at most in the short streams of Spec
MaxFrames == 2
\* data frames the source delivers at most in the long streams of SpecLong
LongFrames == 22
\* pool threads in the short streams
NumWorkers == 2
\* required features a HeaderBlock names, at most
MaxFeatures == 2
\* primitive groups of a PrimitiveBlock, at most
MaxGroups == 2
\* entries of a delta-coded array
MaxDeltas == 3
\* way nodes of a way node list, at most
MaxWayNodes == 3
\* chunks the source hands to the byte-stream adapter, at most
MaxChunks == 3

\* ------------------------------------------------------------------------
\* Program constants
\* ------------------------------------------------------------------------

\* PBFInputFormat::m_max_work_queue_size
max_work_queue_size == 10
\* PBFInputFormat::m_max_buffer_queue_size
max_buffer_queue_size == 20
\* OSMPBF::max_blob_header_size (the header that sets it is not in src/;
\* the value is the documented cap of 32 KiB)
max_blob_header_size == 32768
\* OSMPBF::max_uncompressed_blob_size (documented cap of 32 MiB)
max_uncompressed_blob_size == 33554432

\* ------------------------------------------------------------------------
\* Strings as the C library sees them
\* ------------------------------------------------------------------------

\* a std::string is a sequence of bytes; NUL is the zero byte
NUL == "\\0"
OSMHeader == <<"O", "S", "M", "H", "e", "a", "d", "e", "r">>
OSMData == <<"O", "S", "M", "D", "a", "t", "a">>

\* std::string::c_str() read as a C string: the bytes before the first NUL
RECURSIVE CStr(_)
CStr(s) ==
    IF s = <<>> \/ Head(s) = NUL THEN <<>> ELSE <<Head(s)>> \o CStr(Tail(s))

\* std::strcmp(a.c_str(), b) != 0
StrcmpDiffers(a, b) == CStr(a) # CStr(b)

\* ------------------------------------------------------------------------
\* Frames of the input
\* ------------------------------------------------------------------------

\* pbytes: bytes of the 4-byte length prefix the source has before it ends;
\* hlen: the length prefix; hbytes: BlobHeader bytes the source has before
\* it ends; hparse: they parse as a BlobHeader; type, datasize: the
\* BlobHeader's fields; dbytes: Blob bytes the source has before it ends;
\* payload: what the Blob holds.  eof: the source ends before the prefix is
\* complete.
GoodFrame ==
    [eof |-> FALSE, pbytes |-> 4, hlen |-> 13, hbytes |-> 13, hparse |-> TRUE,
     type |-> OSMData, datasize |-> 50, dbytes |-> 50, payload |-> "a"]

\* the source ends where a frame would start
EofFrame ==
    [eof |-> TRUE, pbytes |-> 0, hlen |-> 0, hbytes |-> 0, hparse |-> FALSE,
     type |-> <<>>, datasize |-> 0, dbytes |-> 0, payload |-> "none"]

\* the source ends inside the length prefix
TruncatedPrefix == [EofFrame EXCEPT !.pbytes = 2]

\* frames that differ from GoodFrame in one respect
FrameVariants(f) ==
    { f,
      [f EXCEPT !.payload = "b"],
      [f EXCEPT !.payload = "bad"],
      [f EXCEPT !.hlen = max_blob_header_size, !.hbytes = max_blob_header_size],
      [f EXCEPT !.hlen = max_blob_header_size + 1, !.hbytes = max_blob_header_size + 1],
      [f EXCEPT !.hlen = 0, !.hbytes = 0, !.hparse = FALSE],
      [f EXCEPT !.hbytes = 5],
      [f EXCEPT !.hparse = FALSE],
      [f EXCEPT !.type = <<"X">>],
      [f EXCEPT !.type = f.type \o <<NUL, "X">>],
      [f EXCEPT !.datasize = max_uncompressed_blob_size, !.dbytes = max_uncompressed_blob_size],
      [f EXCEPT !.datasize = max_uncompressed_blob_size + 1, !.dbytes = max_uncompressed_blob_size + 1],
      [f EXCEPT !.datasize = -1, !.dbytes = 0],
      [f EXCEPT !.datasize = 0, !.dbytes = 0, !.payload = "none"],
      [f EXCEPT !.dbytes = 7] }

\* what may stand where a data frame is expected
DataFrames ==
    FrameVariants(GoodFrame) \cup {[GoodFrame EXCEPT !.type = OSMHeader]}

\* what may stand where the header frame is expected
HeaderFrames ==
    FrameVariants([GoodFrame EXCEPT !.type = OSMHeader])
        \cup {[GoodFrame EXCEPT !.type = OSMData]} \cup {EofFrame, TruncatedPrefix}

\* the frames of a long stream: well-formed data frames
PlainFrames == {GoodFrame}


\* ------------------------------------------------------------------------
\* The frame reader and the blob parsers (what one call does to one frame)
\* ------------------------------------------------------------------------

Thrown(msg, used) == [thrown |-> TRUE, what |-> msg, size |-> 0, used |-> used]
Returned(size, used) == [thrown |-> FALSE, what |-> "", size |-> size, used |-> used]

\* InputQueueReader::operator() on a source that has `have` bytes left
\* before it ends: true iff `size` bytes can be handed out
InputRead(have, size) == have >= size

\* read_blob_header with the header cap exclusive: size >= max_blob_header_size
ReadBlobHeaderExclusive(f, expected_type) ==
    IF ~InputRead(f.pbytes, 4) THEN Returned(0, 0)
    ELSE IF f.hlen >= max_blob_header_size
        THEN Thrown("Invalid BlobHeader size", 4)
    ELSE IF ~InputRead(f.hbytes, f.hlen)
        THEN Thrown("Read error.", 4)
    ELSE IF ~f.hparse
        THEN Thrown("Failed to parse BlobHeader.", 4 + f.hlen)
    ELSE IF StrcmpDiffers(f.type, expected_type)
        THEN Thrown("Blob does not have expected type", 4 + f.hlen)
    ELSE Returned(f.datasize, 4 + f.hlen)

\* PBFInputFormat::read_blob_header: the value returned (0 on EOF) or the
\* exception thrown, and the bytes taken from the input
ReadBlobHeader(f, expected_type) ==
    IF ~InputRead(f.pbytes, 4) THEN Returned(0, 0)
    ELSE IF f.hlen > max_blob_header_size
        THEN Thrown("Invalid BlobHeader size", 4)
    ELSE IF ~InputRead(f.hbytes, f.hlen)
        THEN Thrown("Read error.", 4)
    ELSE IF ~f.hparse
        THEN Thrown("Failed to parse BlobHeader.", 4 + f.hlen)
    ELSE IF StrcmpDiffers(f.type, expected_type)
        THEN Thrown("Blob does not have expected type", 4 + f.hlen)
    ELSE Returned(f.datasize, 4 + f.hlen)

\* BlobParser::BlobParser: checks the size, then reads the blob's bytes.
\* (new unsigned char[size] runs first; it can only throw as well.)
BlobParserCtor(size, f) ==
    IF size < 0 \/ size > max_uncompressed_blob_size
        THEN Thrown("invalid blob size", 0)
    ELSE IF ~InputRead(f.dbytes, size)
        THEN Thrown("read error (EOF)", 0)
    ELSE Returned(size, size)

\* the buffer a payload decodes to
Decode(payload) == <<"buffer", payload>>

\* operator() without the test of ParseFromArray's result: a blob that does
\* not parse yields a buffer instead of an exception
BlobParserCallUnchecked(payload) ==
    IF payload = "none"
        THEN [thrown |-> TRUE, what |-> "Blob contains no data", buffer |-> <<>>]
    ELSE [thrown |-> FALSE, what |-> "", buffer |-> Decode(payload)]

\* BlobParser::operator(): the buffer of a data blob, or the exception
BlobParserCall(payload) ==
    IF payload = "none"
        THEN [thrown |-> TRUE, what |-> "Blob contains no data", buffer |-> <<>>]
    ELSE IF payload = "bad"
        THEN [thrown |-> TRUE, what |-> "failed to parse blob", buffer |-> <<>>]
    ELSE [thrown |-> FALSE, what |-> "", buffer |-> Decode(payload)]

\* BlobParser::doit on the header blob: whether it throws
BlobParserDoit(payload) ==
    IF payload = "none"
        THEN [thrown |-> TRUE, what |-> "Blob contains no data"]
    ELSE IF payload = "bad"
        THEN [thrown |-> TRUE, what |-> "failed to parse blob"]
    ELSE [thrown |-> FALSE, what |-> ""]


\* ------------------------------------------------------------------------
\* State
\* ------------------------------------------------------------------------

VARIABLES
    m_use_thread_pool,      \* PBFInputFormat::m_use_thread_pool
    m_read_which_entities,  \* InputFormat::m_read_which_entities (a set of kinds)
    pool_threads,           \* threads of osmium::thread::Pool::instance()
    feed,                   \* the source: frames it may still deliver
    m_done,                 \* PBFInputFormat::m_done
    m_queue,                \* PBFInputFormat::m_queue: futures, by blob number
    fut,                    \* the shared state of each future pushed so far
    pool_queue,             \* the pool's work queue
    running,                \* tasks a pool thread is executing
    r_pc,                   \* where the reader thread is in parse_osm_data
    n,                      \* parse_osm_data's local n
    cur,                    \* the frame the reader read last
    task,                   \* parse_osm_data's local data_blob_parser
    c_pc,                   \* where the consumer is
    first,                  \* the frame open() read
    buffer_future,          \* read()'s local buffer_future (a blob number)
    returned,               \* what the calls of read() have returned or raised
    open_error,             \* what open() has thrown ("" if nothing)
    aborted,                \* std::terminate was called
    blobs,                  \* payloads of the data blobs handed to a parser
    pushed_at_done,         \* futures pushed when m_done was first set (-1: not set)
    finish_order,           \* blob numbers in the order their tasks finished
    r_used,                 \* bytes the reader's last frame took from the input
    r_error,                \* what() of the exception that left the reader thread
    first_used,             \* bytes open() took from the input
    NDEBUG,                 \* the build defines NDEBUG: assert() does nothing
    ub,                     \* what an out-of-bounds read does in this build
    blob,                   \* the Blob a blob parser was constructed on
    m_header,               \* InputFormat::m_header
    block,                  \* the PrimitiveBlock a block parser was constructed on
    result,                 \* what the parser's call returned or threw
    d_pc                    \* where the parser is

vars ==
    <<m_use_thread_pool, m_read_which_entities, pool_threads, feed, m_done,
      m_queue, fut, pool_queue, running, r_pc, n, cur, task, c_pc, first,
      buffer_future, returned, open_error, aborted, blobs, pushed_at_done,
      finish_order, r_used, r_error, first_used,
      NDEBUG, ub, blob, m_header, block, result, d_pc>>

config_vars == <<m_use_thread_pool, m_read_which_entities, pool_threads>>
shared_vars == <<m_done, pushed_at_done, m_queue, fut>>
reader_vars == <<r_pc, n, cur, task, blobs, r_used, r_error>>
consumer_vars == <<c_pc, first, buffer_future, returned, open_error, first_used>>
pool_vars == <<pool_queue, running, finish_order>>
decoder_vars == <<NDEBUG, ub, blob, m_header, block, result, d_pc>>

\* no parser under observation: the pipeline treats blobs by their payload
DecoderIdle ==
    /\ NDEBUG = TRUE
    /\ ub = "none"
    /\ blob = <<>>
    /\ m_header = <<>>
    /\ block = <<>>
    /\ result = <<>>
    /\ d_pc = "idle"

NoTask == [blob_num |-> -1, payload |-> "none"]
Pending == [state |-> "pending", what |-> "", buffer |-> <<>>]
Ready(buffer) == [state |-> "ready", what |-> "", buffer |-> buffer]
Failed(what) == [state |-> "error", what |-> what, buffer |-> <<>>]

\* futures pushed so far
Pushed == Cardinality(DOMAIN fut)

\* the shared state a task leaves in its future: the value, or the exception
\* the packaged task caught
Outcome(t) ==
    LET res == BlobParserCall(t.payload)
    IN  IF res.thrown THEN Failed(res.what) ELSE Ready(res.buffer)

\* osmium::thread::Queue::push
QueuePush(q, x) == Append(q, x)
\* osmium::thread::Queue::wait_and_pop: blocks while the queue is empty
QueueCanPop(q) == q # <<>>
QueueFront(q) == Head(q)
QueuePop(q) == Tail(q)

\* m_done is set: remember how many futures had been pushed the first time
SetDone ==
    /\ m_done' = TRUE
    /\ pushed_at_done' = IF m_done THEN pushed_at_done ELSE Pushed

\* the state after construction (PBFInputFormat::PBFInputFormat); the source
\* and the configuration are the caller's
PipelineInit(frames, header_frames, left, threads) ==
    /\ pool_threads = threads
    /\ feed = [left |-> left, kinds |-> frames, header |-> header_frames]
    /\ m_done = FALSE
    /\ m_queue = <<>>
    /\ fut = <<>>
    /\ pool_queue = <<>>
    /\ running = {}
    /\ r_pc = "none"
    /\ n = 0
    /\ cur = EofFrame
    /\ task = NoTask
    /\ c_pc = "start"
    /\ first = EofFrame
    /\ buffer_future = -1
    /\ returned = <<>>
    /\ open_error = ""
    /\ aborted = FALSE
    /\ blobs = <<>>
    /\ pushed_at_done = -1
    /\ finish_order = <<>>
    /\ r_used = 0
    /\ r_error = ""
    /\ first_used = 0

\* the pipeline on a source, blobs seen by their payload only
InitWith(frames, header_frames, left, threads) ==
    /\ PipelineInit(frames, header_frames, left, threads)
    /\ m_use_thread_pool \in BOOLEAN
    /\ m_read_which_entities \in {{}, {"node", "way", "relation"}}
    /\ DecoderIdle

Init == InitWith(DataFrames, HeaderFrames, MaxFrames, NumWorkers)

InitLong ==
    InitWith(PlainFrames, {[GoodFrame EXCEPT !.type = OSMHeader]}, LongFrames, 1)


\* ------------------------------------------------------------------------
\* The consumer: open(), read(), the destructor
\* ------------------------------------------------------------------------

\* what open() does with the first frame: what() of the exception it throws
\* ("" if none) and the bytes it took from the input
OpenOutcome(f) ==
    LET h == ReadBlobHeader(f, OSMHeader)
        p == BlobParserCtor(h.size, f)
        d == BlobParserDoit(f.payload)
    IN  IF h.thrown THEN [what |-> h.what, used |-> h.used]
        ELSE IF p.thrown THEN [what |-> p.what, used |-> h.used + p.used]
        ELSE [what |-> d.what, used |-> h.used + p.used]

\* the step of open() that ends it: read_blob_header or the parser's
\* constructor when they throw, else doit
OpenStage(f) ==
    IF ReadBlobHeader(f, OSMHeader).thrown THEN "read_blob_header"
    ELSE IF BlobParserCtor(ReadBlobHeader(f, OSMHeader).size, f).thrown
        THEN "HeaderBlobParser"
    ELSE "doit"

\* PBFInputFormat::open
Open ==
    /\ ~aborted
    /\ c_pc = "start"
    /\ \E f \in feed.header :
        /\ first' = f
        /\ open_error' = OpenOutcome(f).what
        /\ first_used' = OpenOutcome(f).used
        /\ feed' = [feed EXCEPT !.left = IF f.eof THEN 0 ELSE @]
        /\ IF OpenOutcome(f).what # ""
            THEN c_pc' = "failed" /\ r_pc' = r_pc
            ELSE /\ c_pc' = "idle"
                 /\ r_pc' = IF m_read_which_entities # {} THEN "read" ELSE r_pc
    /\ UNCHANGED <<config_vars, decoder_vars, shared_vars, pool_vars, n, cur, task, blobs,
                   r_used, r_error, buffer_future, returned, aborted>>

EmptyBuffer == [kind |-> "empty", blob_num |-> -1, what |-> "", buffer |-> <<>>]

\* PBFInputFormat::read, the test of m_done and of the queue
ReadCheck ==
    /\ ~aborted
    /\ c_pc = "idle"
    /\ IF ~m_done \/ m_queue # <<>>
        THEN c_pc' = "pop" /\ returned' = returned
        ELSE c_pc' = "eof" /\ returned' = Append(returned, EmptyBuffer)
    /\ UNCHANGED <<config_vars, decoder_vars, feed, shared_vars, pool_vars, reader_vars,
                   first, first_used, buffer_future, open_error, aborted>>

\* read() taking the newest future of the queue instead of the oldest
ReadPopNewest ==
    /\ ~aborted
    /\ c_pc = "pop"
    /\ QueueCanPop(m_queue)
    /\ buffer_future' = m_queue[Len(m_queue)]
    /\ m_queue' = SubSeq(m_queue, 1, Len(m_queue) - 1)
    /\ c_pc' = "get"
    /\ UNCHANGED <<config_vars, decoder_vars, feed, m_done, pushed_at_done, fut, pool_vars,
                   reader_vars, first, first_used, returned, open_error,
                   aborted>>

\* PBFInputFormat::read, m_queue.wait_and_pop(buffer_future)
ReadPop ==
    /\ ~aborted
    /\ c_pc = "pop"
    /\ QueueCanPop(m_queue)
    /\ buffer_future' = QueueFront(m_queue)
    /\ m_queue' = QueuePop(m_queue)
    /\ c_pc' = "get"
    /\ UNCHANGED <<config_vars, decoder_vars, feed, m_done, pushed_at_done, fut, pool_vars,
                   reader_vars, first, first_used, returned, open_error,
                   aborted>>

\* std::future::get on a ready future: its buffer, or its exception rethrown
FutureGet(k) ==
    [kind |-> IF fut[k].state = "ready" THEN "buffer" ELSE "error",
     blob_num |-> k, what |-> fut[k].what, buffer |-> fut[k].buffer]

\* PBFInputFormat::read, buffer_future.get(): blocks until the future is
\* ready, then read() returns or throws
ReadGet ==
    /\ ~aborted
    /\ c_pc = "get"
    /\ fut[buffer_future].state # "pending"
    /\ returned' = Append(returned, FutureGet(buffer_future))
    /\ c_pc' = "idle"
    /\ UNCHANGED <<config_vars, decoder_vars, feed, shared_vars, pool_vars, reader_vars,
                   first, first_used, buffer_future, open_error, aborted>>

\* PBFInputFormat::~PBFInputFormat, m_done = true
DtorSetDone ==
    /\ ~aborted
    /\ c_pc \in {"idle", "eof", "failed"}
    /\ SetDone
    /\ c_pc' = "join"
    /\ UNCHANGED <<config_vars, decoder_vars, feed, m_queue, fut, pool_vars, reader_vars,
                   first, first_used, buffer_future, returned, open_error,
                   aborted>>

\* PBFInputFormat::~PBFInputFormat, m_reader.join() if joinable
DtorJoin ==
    /\ ~aborted
    /\ c_pc = "join"
    /\ r_pc \in {"none", "exit"}
    /\ c_pc' = "destroyed"
    /\ UNCHANGED <<config_vars, decoder_vars, feed, shared_vars, pool_vars, reader_vars,
                   first, first_used, buffer_future, returned, open_error,
                   aborted>>

\* ------------------------------------------------------------------------
\* The reader thread: PBFInputFormat::parse_osm_data
\* ------------------------------------------------------------------------

\* an exception leaves the thread's function: std::terminate
ReaderThrows(what) ==
    /\ r_pc' = "thrown"
    /\ r_error' = what
    /\ aborted' = TRUE

\* the frames the source can deliver next
NextFrames == IF feed.left > 0 THEN feed.kinds \cup {EofFrame, TruncatedPrefix} ELSE {EofFrame, TruncatedPrefix}

\* the loop's condition, read_blob_header("OSMData"), and the construction
\* of data_blob_parser
ReadFrame ==
    /\ ~aborted
    /\ r_pc = "read"
    /\ \E f \in NextFrames :
        LET h == ReadBlobHeader(f, OSMData)
            p == BlobParserCtor(h.size, f)
        IN  /\ cur' = f
            /\ feed' = [feed EXCEPT !.left = IF f.eof THEN 0 ELSE @ - 1]
            /\ IF h.thrown
                THEN /\ ReaderThrows(h.what)
                     /\ r_used' = h.used
                     /\ UNCHANGED <<task, blobs>>
               ELSE IF h.size = 0
                THEN /\ r_pc' = "set_done"
                     /\ r_used' = h.used
                     /\ UNCHANGED <<task, blobs, aborted, r_error>>
               ELSE IF p.thrown
                THEN /\ ReaderThrows(p.what)
                     /\ r_used' = h.used + p.used
                     /\ UNCHANGED <<task, blobs>>
               ELSE /\ r_pc' = "submit"
                    /\ r_used' = h.used + p.used
                    /\ task' = [blob_num |-> n, payload |-> f.payload]
                    /\ blobs' = Append(blobs, f.payload)
                    /\ UNCHANGED <<aborted, r_error>>
    /\ UNCHANGED <<config_vars, decoder_vars, shared_vars, pool_vars, n, consumer_vars>>

\* the future of `task` enters the result queue
PushFuture ==
    /\ m_queue' = QueuePush(m_queue, task.blob_num)
    /\ fut' = [i \in DOMAIN fut \cup {task.blob_num} |->
                IF i = task.blob_num THEN Pending ELSE fut[i]]

\* m_queue.push(Pool::instance().submit(data_blob_parser)), or, without the
\* pool, m_queue.push(promise.get_future())
Submit ==
    /\ ~aborted
    /\ r_pc = "submit"
    /\ PushFuture
    /\ IF m_use_thread_pool
        THEN pool_queue' = Append(pool_queue, task) /\ r_pc' = "wait_work"
        ELSE pool_queue' = pool_queue /\ r_pc' = "set_value"
    /\ UNCHANGED <<config_vars, decoder_vars, feed, m_done, pushed_at_done, running,
                   finish_order, n, cur, task, blobs, r_used, r_error,
                   consumer_vars, aborted>>

\* the promise resolved with a fresh buffer instead of the parser's
SetValueFresh ==
    /\ ~aborted
    /\ r_pc = "set_value"
    /\ fut' = [fut EXCEPT ![task.blob_num] = Ready(<<>>)]
    /\ finish_order' = Append(finish_order, task.blob_num)
    /\ n' = n + 1
    /\ r_pc' = "wait_buffers"
    /\ UNCHANGED <<config_vars, decoder_vars, feed, m_done, pushed_at_done, m_queue,
                   pool_queue, running, cur, task, blobs, r_used, r_error,
                   consumer_vars, aborted>>

\* promise.set_value(data_blob_parser()) on the reader thread, then ++n
SetValue ==
    /\ ~aborted
    /\ r_pc = "set_value"
    /\ IF BlobParserCall(task.payload).thrown
        THEN /\ ReaderThrows(BlobParserCall(task.payload).what)
             /\ UNCHANGED <<fut, n, finish_order>>
        ELSE /\ fut' = [fut EXCEPT ![task.blob_num] = Outcome(task)]
             /\ finish_order' = Append(finish_order, task.blob_num)
             /\ n' = n + 1
             /\ r_pc' = "wait_buffers"
             /\ UNCHANGED <<aborted, r_error>>
    /\ UNCHANGED <<config_vars, decoder_vars, feed, m_done, pushed_at_done, m_queue,
                   pool_queue, running, cur, task, blobs, r_used,
                   consumer_vars>>

\* the wait for the work queue with > in place of >=
WorkQueueOverFull == ~m_done /\ Len(pool_queue) > max_work_queue_size

\* while (!m_done && Pool::instance().queue_size() >= m_max_work_queue_size)
WorkQueueFull == ~m_done /\ Len(pool_queue) >= max_work_queue_size

\* the reader leaves the wait for the work queue, then ++n
WaitWork ==
    /\ ~aborted
    /\ r_pc = "wait_work"
    /\ ~WorkQueueFull
    /\ n' = n + 1
    /\ r_pc' = "wait_buffers"
    /\ UNCHANGED <<config_vars, decoder_vars, feed, shared_vars, pool_vars, cur, task,
                   blobs, r_used, r_error, consumer_vars, aborted>>

\* no wait for the result queue at all
BufferQueueNeverFull == FALSE

\* the wait for the result queue without the test of m_done
BufferQueueFullIgnoringDone == Len(m_queue) > max_buffer_queue_size

\* while (!m_done && m_queue.size() > m_max_buffer_queue_size)
BufferQueueFull == ~m_done /\ Len(m_queue) > max_buffer_queue_size

\* the reader leaves the wait for the result queue
WaitBuffers ==
    /\ ~aborted
    /\ r_pc = "wait_buffers"
    /\ ~BufferQueueFull
    /\ r_pc' = "check_done"
    /\ UNCHANGED <<config_vars, decoder_vars, feed, shared_vars, pool_vars, n, cur, task,
                   blobs, r_used, r_error, consumer_vars, aborted>>

\* the loop going on whatever m_done holds
CheckDoneIgnored ==
    /\ ~aborted
    /\ r_pc = "check_done"
    /\ r_pc' = "read"
    /\ UNCHANGED <<config_vars, decoder_vars, feed, shared_vars, pool_vars, n, cur, task,
                   blobs, r_used, r_error, consumer_vars, aborted>>

\* if (m_done) return; else the next turn of the loop
CheckDone ==
    /\ ~aborted
    /\ r_pc = "check_done"
    /\ r_pc' = IF m_done THEN "exit" ELSE "read"
    /\ UNCHANGED <<config_vars, decoder_vars, feed, shared_vars, pool_vars, n, cur, task,
                   blobs, r_used, r_error, consumer_vars, aborted>>

\* m_done = true after the loop
ReaderSetDone ==
    /\ ~aborted
    /\ r_pc = "set_done"
    /\ SetDone
    /\ r_pc' = "exit"
    /\ UNCHANGED <<config_vars, decoder_vars, feed, m_queue, fut, pool_vars, n, cur, task,
                   blobs, r_used, r_error, consumer_vars, aborted>>

\* ------------------------------------------------------------------------
\* The pool's threads
\* ------------------------------------------------------------------------

\* a pool thread takes the oldest task of the work queue
WorkerTake ==
    /\ ~aborted
    /\ pool_queue # <<>>
    /\ Cardinality(running) < pool_threads
    /\ running' = running \cup {Head(pool_queue)}
    /\ pool_queue' = Tail(pool_queue)
    /\ UNCHANGED <<config_vars, decoder_vars, feed, shared_vars, finish_order, reader_vars,
                   consumer_vars, aborted>>

\* a pool thread has run its task: the future becomes ready
WorkerFinish ==
    /\ ~aborted
    /\ \E t \in running :
        /\ fut' = [fut EXCEPT ![t.blob_num] = Outcome(t)]
        /\ finish_order' = Append(finish_order, t.blob_num)
        /\ running' = running \ {t}
    /\ UNCHANGED <<config_vars, decoder_vars, feed, m_done, pushed_at_done, m_queue,
                   pool_queue, reader_vars, consumer_vars, aborted>>

\* ------------------------------------------------------------------------
\* Blobs and the header block (what a blob parser does to one Blob)
\* ------------------------------------------------------------------------

\* OSMPBF::lonlat_resolution and osmium::Location::coordinate_precision
lonlat_resolution == 1000000000
coordinate_precision == 10000000

\* C++ integer division: the quotient truncated towards zero (b > 0)
TruncDiv(a, b) == IF a >= 0 THEN a \div b ELSE -((-a) \div b)

SeqsUpTo(S, len) == UNION {[1..k -> S] : k \in 0..len}

\* the required features a HeaderBlock may name
Features ==
    {"OsmSchema-V0.6", "DenseNodes", "HistoricalInformation", "Sort.Type_then_ID"}

\* HeaderBlocks: parses says whether ParseFromArray accepts the bytes;
\* optional stands for each of the optional fields being present
HeaderBlocks ==
    [parses : BOOLEAN,
     required_features : SeqsUpTo(Features, MaxFeatures),
     has_writingprogram : BOOLEAN,
     writingprogram : {"R"},
     has_bbox : BOOLEAN,
     bbox : {[left |-> -150, bottom |-> 250, right |-> 350, top |-> 450]},
     has_osmosis_replication : BOOLEAN]

\* Blobs: raw and zlib_data hold HeaderBlocks that differ in the writing
\* program; zlib_data.size is the number of bytes it inflates to
Blobs ==
    { [parses |-> p, has_raw |-> f[1], raw |-> [hb EXCEPT !.writingprogram = "R"],
       has_zlib_data |-> f[2],
       zlib_data |-> [inflates_to |-> [hb EXCEPT !.writingprogram = "Z"],
                      size |-> z[2]],
       raw_size |-> z[1], has_lzma_data |-> f[3]] :
        p \in BOOLEAN, f \in BOOLEAN \X BOOLEAN \X BOOLEAN,
        hb \in {h \in HeaderBlocks :
                   h.has_bbox = h.has_writingprogram
                   /\ h.has_osmosis_replication = h.has_writingprogram},
        z \in {<<50, 50>>, <<50, 49>>,
               <<max_uncompressed_blob_size, max_uncompressed_blob_size>>,
               <<max_uncompressed_blob_size + 1, max_uncompressed_blob_size + 1>>} }

\* osmium::io::Header after construction
EmptyHeader ==
    [options |-> {}, has_multiple_object_versions |-> FALSE, boxes |-> <<>>]

\* osmium::io::Header::set
HeaderSet(header, key, value) ==
    [header EXCEPT !.options = {o \in @ : o[1] # key} \cup {<<key, value>>}]

\* what a call does: it returns, throws, or the program is aborted; handed
\* is the data given to handle_blob (<<>> if it was not called)
Returns(handed, header, buffer) ==
    [kind |-> "returned", what |-> "", arg |-> "", handed |-> handed,
     header |-> header, buffer |-> buffer]
Throws(what, arg, handed, header) ==
    [kind |-> "thrown", what |-> what, arg |-> arg, handed |-> handed,
     header |-> header, buffer |-> <<>>]
Aborts(header) ==
    [kind |-> "aborted", what |-> "assert", arg |-> "", handed |-> <<>>,
     header |-> header, buffer |-> <<>>]

\* the loop over required_features of HeaderBlobParser::handle_blob, with
\* every feature accepted
RECURSIVE RequiredFeaturesLenient(_, _, _)
RequiredFeaturesLenient(features, i, header) ==
    IF i > Len(features) THEN Returns(<<>>, header, <<>>)
    ELSE IF features[i] = "DenseNodes"
        THEN RequiredFeaturesLenient(features, i + 1,
                                     HeaderSet(header, "pbf_dense_nodes", "true"))
    ELSE IF features[i] = "HistoricalInformation"
        THEN RequiredFeaturesLenient(features, i + 1,
                 [header EXCEPT !.has_multiple_object_versions = TRUE])
    ELSE RequiredFeaturesLenient(features, i + 1, header)

\* the loop over required_features of HeaderBlobParser::handle_blob
RECURSIVE RequiredFeatures(_, _, _)
RequiredFeatures(features, i, header) ==
    IF i > Len(features) THEN Returns(<<>>, header, <<>>)
    ELSE IF features[i] = "OsmSchema-V0.6"
        THEN RequiredFeatures(features, i + 1, header)
    ELSE IF features[i] = "DenseNodes"
        THEN RequiredFeatures(features, i + 1,
                              HeaderSet(header, "pbf_dense_nodes", "true"))
    ELSE IF features[i] = "HistoricalInformation"
        THEN RequiredFeatures(features, i + 1,
                 [header EXCEPT !.has_multiple_object_versions = TRUE])
    ELSE Throws("Required feature not supported: ", features[i], <<>>, header)

\* the corners of the HeaderBBox converted to osmium::Location units
BBoxCorners(pbf_bbox) ==
    LET resolution_convert == lonlat_resolution \div coordinate_precision
    IN  <<<<TruncDiv(pbf_bbox.left, resolution_convert),
            TruncDiv(pbf_bbox.bottom, resolution_convert)>>,
          <<TruncDiv(pbf_bbox.right, resolution_convert),
            TruncDiv(pbf_bbox.top, resolution_convert)>>>>

\* HeaderBlobParser::handle_blob, the fields after required_features
HeaderOptionalFields(data, header) ==
    LET h1 == IF data.has_writingprogram
                  THEN HeaderSet(header, "generator", data.writingprogram)
                  ELSE header
        h2 == IF data.has_bbox
                  THEN [h1 EXCEPT !.boxes = Append(@, BBoxCorners(data.bbox))]
                  ELSE h1
    IN  IF data.has_osmosis_replication
            THEN HeaderSet(HeaderSet(HeaderSet(h2,
                     "osmosis_replication_timestamp", "iso"),
                     "osmosis_replication_sequence_number", "number"),
                     "osmosis_replication_base_url", "url")
            ELSE h2

\* HeaderBlobParser::handle_blob: m_header afterwards, and whether it threw
HeaderHandleBlob(data, header) ==
    IF ~data.parses
        THEN Throws("Failed to parse HeaderBlock.", "", <<data>>, header)
    ELSE LET rf == RequiredFeatures(data.required_features, 1, header)
         IN  IF rf.kind = "thrown" THEN [rf EXCEPT !.handed = <<data>>]
             ELSE Returns(<<data>>, HeaderOptionalFields(data, rf.header), <<>>)

\* DataBlobParser::handle_blob: the buffer the block parser returns
DataHandleBlob(data, header) == Returns(<<data>>, header, Decode(data))

\* osmium::io::detail::zlib_uncompress: the inflated data, or an exception
\* if the data does not inflate to exactly raw_size bytes
zlib_uncompress(zlib_data, raw_size) ==
    IF zlib_data.size = raw_size
        THEN [thrown |-> FALSE, data |-> zlib_data.inflates_to]
        ELSE [thrown |-> TRUE, data |-> zlib_data.inflates_to]

\* BlobParser<HeaderBlobParser>::doit
BlobDoit(pbf_blob, header, ndebug) ==
    IF ~pbf_blob.parses THEN Throws("failed to parse blob", "", <<>>, header)
    ELSE IF pbf_blob.has_raw THEN HeaderHandleBlob(pbf_blob.raw, header)
    ELSE IF pbf_blob.has_zlib_data
        THEN IF ~ndebug /\ ~(pbf_blob.raw_size <= max_uncompressed_blob_size)
                 THEN Aborts(header)
             ELSE IF zlib_uncompress(pbf_blob.zlib_data, pbf_blob.raw_size).thrown
                 THEN Throws("failed to uncompress data", "", <<>>, header)
             ELSE HeaderHandleBlob(
                      zlib_uncompress(pbf_blob.zlib_data, pbf_blob.raw_size).data,
                      header)
    ELSE IF pbf_blob.has_lzma_data
        THEN Throws("lzma blobs not implemented", "", <<>>, header)
    ELSE Throws("Blob contains no data", "", <<>>, header)

\* operator() with zlib_data looked at before raw
BlobCallZlibFirst(pbf_blob, header, ndebug) ==
    IF ~pbf_blob.parses THEN Throws("failed to parse blob", "", <<>>, header)
    ELSE IF pbf_blob.has_zlib_data
        THEN IF ~ndebug /\ ~(pbf_blob.raw_size <= max_uncompressed_blob_size)
                 THEN Aborts(header)
             ELSE IF zlib_uncompress(pbf_blob.zlib_data, pbf_blob.raw_size).thrown
                 THEN Throws("failed to uncompress data", "", <<>>, header)
             ELSE DataHandleBlob(
                      zlib_uncompress(pbf_blob.zlib_data, pbf_blob.raw_size).data,
                      header)
    ELSE IF pbf_blob.has_raw THEN DataHandleBlob(pbf_blob.raw, header)
    ELSE IF pbf_blob.has_lzma_data
        THEN Throws("lzma blobs not implemented", "", <<>>, header)
    ELSE Throws("Blob contains no data", "", <<>>, header)

\* BlobParser<DataBlobParser>::operator()
BlobCall(pbf_blob, header, ndebug) ==
    IF ~pbf_blob.parses THEN Throws("failed to parse blob", "", <<>>, header)
    ELSE IF pbf_blob.has_raw THEN DataHandleBlob(pbf_blob.raw, header)
    ELSE IF pbf_blob.has_zlib_data
        THEN IF ~ndebug /\ ~(pbf_blob.raw_size <= max_uncompressed_blob_size)
                 THEN Aborts(header)
             ELSE IF zlib_uncompress(pbf_blob.zlib_data, pbf_blob.raw_size).thrown
                 THEN Throws("failed to uncompress data", "", <<>>, header)
             ELSE DataHandleBlob(
                      zlib_uncompress(pbf_blob.zlib_data, pbf_blob.raw_size).data,
                      header)
    ELSE IF pbf_blob.has_lzma_data
        THEN Throws("lzma blobs not implemented", "", <<>>, header)
    ELSE Throws("Blob contains no data", "", <<>>, header)

\* PBFInputFormat::open from the construction of the header blob parser on:
\* doit, then the reader thread is started
HeaderBlobDoit ==
    /\ ~aborted
    /\ d_pc = "blob"
    /\ c_pc = "start"
    /\ result' = BlobDoit(blob, m_header, NDEBUG)
    /\ m_header' = result'.header
    /\ aborted' = (result'.kind = "aborted")
    /\ open_error' = IF result'.kind = "thrown" THEN result'.what ELSE ""
    /\ c_pc' = IF result'.kind = "returned" THEN "idle"
               ELSE IF result'.kind = "thrown" THEN "failed" ELSE c_pc
    /\ r_pc' = IF result'.kind = "returned" /\ m_read_which_entities # {}
               THEN "read" ELSE r_pc
    /\ d_pc' = "doit_done"
    /\ UNCHANGED <<config_vars, feed, shared_vars, pool_vars, n, cur, task,
                   blobs, r_used, r_error, first, buffer_future, returned,
                   first_used, NDEBUG, ub, blob, block>>

\* a data blob parser's operator() is run (by a pool thread or the reader)
DataBlobCall ==
    /\ ~aborted
    /\ d_pc = "blob"
    /\ result' = BlobCall(blob, m_header, NDEBUG)
    /\ aborted' = (result'.kind = "aborted")
    /\ d_pc' = "call_done"
    /\ UNCHANGED <<config_vars, feed, shared_vars, pool_vars, reader_vars,
                   consumer_vars, NDEBUG, ub, blob, m_header, block>>

\* ------------------------------------------------------------------------
\* Primitive blocks of the input
\* ------------------------------------------------------------------------

NoInfo ==
    [has_info |-> FALSE, version |-> 0, changeset |-> 0, timestamp |-> 0,
     uid |-> 0, has_visible |-> FALSE, visible |-> TRUE, user_sid |-> 0]
\* an anonymous user's Info
SomeInfo ==
    [has_info |-> TRUE, version |-> 3, changeset |-> 7, timestamp |-> 11,
     uid |-> -1, has_visible |-> FALSE, visible |-> TRUE, user_sid |-> 2]
\* the Info of a deleted object
DeletedInfo ==
    [has_info |-> TRUE, version |-> 4, changeset |-> 8, timestamp |-> 12,
     uid |-> 6, has_visible |-> TRUE, visible |-> FALSE, user_sid |-> 3]

NoDense ==
    [id |-> <<>>, lat |-> <<>>, lon |-> <<>>, has_denseinfo |-> FALSE,
     denseinfo |-> [version |-> <<>>, changeset |-> <<>>, timestamp |-> <<>>,
                    uid |-> <<>>, user_sid |-> <<>>, visible |-> <<>>],
     keys_vals |-> <<>>]

EmptyGroup ==
    [has_dense |-> FALSE, dense |-> NoDense, ways |-> <<>>, relations |-> <<>>,
     nodes |-> <<>>]

\* three dense nodes without DenseInfo and without tags
ThreeDense ==
    [NoDense EXCEPT !.id = <<1, 1, 1>>, !.lat = <<100, 0, -50>>,
                    !.lon = <<200, 0, 0>>]

\* three dense nodes with DenseInfo (the second one deleted, the third one
\* anonymous) and tags on the first and the third
InfoDense ==
    [NoDense EXCEPT
        !.id = <<5, -2, 4>>, !.lat = <<-30, 70, 5>>, !.lon = <<40, -90, 5>>,
        !.has_denseinfo = TRUE,
        !.denseinfo = [version |-> <<3, 1, 2>>, changeset |-> <<10, 1, -4>>,
                       timestamp |-> <<100, 5, -20>>, uid |-> <<5, 1, -9>>,
                       user_sid |-> <<1, 2, -1>>,
                       visible |-> <<TRUE, FALSE, TRUE>>],
        !.keys_vals = <<1, 2, 3, 2, 0, 0, 2, 1, 0>>]

SomeNode ==
    [id |-> 21, info |-> SomeInfo, lat |-> -150, lon |-> 250,
     keys |-> <<1, 2>>, vals |-> <<2, 3>>]
SomeWay ==
    [id |-> 31, info |-> SomeInfo, refs |-> <<10, -3, 5>>,
     keys |-> <<1>>, vals |-> <<3>>]
SomeRelation ==
    [id |-> 41, info |-> NoInfo, types |-> <<0, 1, 2>>, memids |-> <<5, 10, -3>>,
     roles_sid |-> <<2, 3, 2>>, keys |-> <<2>>, vals |-> <<1>>]

\* dense groups whose keys_vals does not hold one 0 for each node: it ends
\* after the tags of the first node, or goes on after the 0 of the last node
MisalignedGroups ==
    { [EmptyGroup EXCEPT !.has_dense = TRUE,
                         !.dense = [InfoDense EXCEPT !.keys_vals = <<1, 2, 0>>]],
      [EmptyGroup EXCEPT !.has_dense = TRUE,
                         !.dense = [ThreeDense EXCEPT
                                       !.keys_vals = <<0, 0, 0, 1, 2, 0>>]] }

\* groups whose string indexes are all inside a table of four strings
PlainGroups ==
    { EmptyGroup,
      [EmptyGroup EXCEPT !.has_dense = TRUE, !.dense = ThreeDense],
      [EmptyGroup EXCEPT !.has_dense = TRUE, !.dense = InfoDense],
      [EmptyGroup EXCEPT !.nodes = <<SomeNode, [SomeNode EXCEPT !.info = DeletedInfo]>>],
      [EmptyGroup EXCEPT !.ways = <<SomeWay, [SomeWay EXCEPT !.refs = <<4, 1>>,
                                                             !.info = NoInfo]>>],
      [EmptyGroup EXCEPT !.relations =
          <<SomeRelation, [SomeRelation EXCEPT !.memids = <<-2, 3, 1>>,
                                               !.info = DeletedInfo]>>],
      [EmptyGroup EXCEPT !.has_dense = TRUE, !.dense = ThreeDense,
                         !.ways = <<SomeWay>>],
      [EmptyGroup EXCEPT !.ways = <<SomeWay>>, !.relations = <<SomeRelation>>] }
        \cup MisalignedGroups

\* an index that is in no table of four strings
OutsideTable == {4}

\* groups of one object with one string index outside the table, or with a
\* keys_vals that ends with a key that has no value
BadIndexGroups ==
    UNION { { [EmptyGroup EXCEPT !.nodes = <<[SomeNode EXCEPT !.keys[1] = x]>>],
              [EmptyGroup EXCEPT !.nodes = <<[SomeNode EXCEPT !.vals[2] = x]>>],
              [EmptyGroup EXCEPT !.nodes = <<[SomeNode EXCEPT !.info.user_sid = x]>>],
              [EmptyGroup EXCEPT !.ways = <<[SomeWay EXCEPT !.keys[1] = x]>>],
              [EmptyGroup EXCEPT !.ways = <<[SomeWay EXCEPT !.vals[1] = x]>>],
              [EmptyGroup EXCEPT !.ways = <<[SomeWay EXCEPT !.info.user_sid = x]>>],
              [EmptyGroup EXCEPT !.relations = <<[SomeRelation EXCEPT !.keys[1] = x]>>],
              [EmptyGroup EXCEPT !.relations = <<[SomeRelation EXCEPT !.vals[1] = x]>>],
              [EmptyGroup EXCEPT !.relations =
                  <<[SomeRelation EXCEPT !.info = [SomeInfo EXCEPT !.user_sid = x]]>>],
              [EmptyGroup EXCEPT !.relations = <<[SomeRelation EXCEPT !.roles_sid[2] = x]>>],
              [EmptyGroup EXCEPT !.has_dense = TRUE,
                                 !.dense = [InfoDense EXCEPT !.keys_vals[1] = x]],
              [EmptyGroup EXCEPT !.has_dense = TRUE,
                                 !.dense = [InfoDense EXCEPT !.keys_vals[2] = x]],
              [EmptyGroup EXCEPT !.has_dense = TRUE,
                                 !.dense = [InfoDense EXCEPT !.denseinfo.user_sid[1] = x]] }
            : x \in OutsideTable }
        \cup { [EmptyGroup EXCEPT !.has_dense = TRUE,
                                  !.dense = [ThreeDense EXCEPT
                                                !.keys_vals = <<0, 0, 1>>]] }

\* a string as long as the arena a parser starts with (initial_buffer_size)
Huge == "<10 MB of text>"

\* the fields of a block besides its groups
BlockFields ==
    { [parses |-> TRUE, stringtable |-> <<"", "", "outer", "inner">>,
       granularity |-> 100, lat_offset |-> 0, lon_offset |-> 0,
       date_granularity |-> 1000, primitivegroup |-> <<>>],
      [parses |-> TRUE, stringtable |-> <<"", "k", "v", "u">>,
       granularity |-> 1000, lat_offset |-> 50, lon_offset |-> -50,
       date_granularity |-> 2000, primitivegroup |-> <<>>],
      [parses |-> TRUE, stringtable |-> <<"", Huge, "v", "u">>,
       granularity |-> 100, lat_offset |-> 0, lon_offset |-> 0,
       date_granularity |-> 1000, primitivegroup |-> <<>>],
      [parses |-> TRUE, stringtable |-> <<"", "k", "v", "u">>,
       granularity |-> 100, lat_offset |-> 0, lon_offset |-> 0,
       date_granularity |-> 500, primitivegroup |-> <<>>],
      [parses |-> FALSE, stringtable |-> <<>>,
       granularity |-> 100, lat_offset |-> 0, lon_offset |-> 0,
       date_granularity |-> 1000, primitivegroup |-> <<>>] }

\* up to MaxGroups groups, at most one of them (the first or the last) with
\* an index outside the string table
GroupLists ==
    SeqsUpTo(PlainGroups, MaxGroups)
        \cup UNION { {<<b>> \o gs, gs \o <<b>>} :
                         b \in BadIndexGroups,
                         gs \in SeqsUpTo(PlainGroups, MaxGroups - 1) }

PrimitiveBlocks ==
    {[f EXCEPT !.primitivegroup = gs] : f \in BlockFields, gs \in GroupLists}

\* ------------------------------------------------------------------------
\* The primitive block parser (PBFPrimitiveBlockParser)
\* ------------------------------------------------------------------------

AllTypes == {"node", "way", "relation"}

\* what a string read from outside the string table holds
Garbage == "<out of bounds>"

\* m_stringtable->s(idx): RepeatedPtrField does not check idx; reading
\* outside it is undefined
StringTableS(st, idx) ==
    IF idx >= 0 /\ idx < Len(st) THEN st[idx + 1] ELSE Garbage

\* element idx (from 0) of a repeated integer field; reading outside it is
\* undefined and yields an index that is in no string table
At(field, idx) == IF idx >= 0 /\ idx < Len(field) THEN field[idx + 1] ELSE -1

\* an object as its builder constructs it (osmium::Object::Object)
NewObject(type) ==
    [type |-> type, id |-> 0, version |-> 0, changeset |-> 0, timestamp |-> 0,
     uid |-> 0, visible |-> TRUE, user |-> "", location |-> <<>>,
     tags |-> <<>>, nodes |-> <<>>, members |-> <<>>]

\* osmium::Object::uid_from_signed
uid_from_signed(object, uid) == [object EXCEPT !.uid = IF uid < 0 THEN 0 ELSE uid]

\* the coordinate of an osmium::Location from a PBF coordinate, without the
\* division by the resolution ratio
ScaleUndivided(v, granularity, offset) == v * granularity + offset

\* the coordinate of an osmium::Location from a PBF coordinate
Scale(v, granularity, offset) ==
    TruncDiv(v * granularity + offset, lonlat_resolution \div coordinate_precision)

\* the Info of a node, way or relation: version, changeset, timestamp, uid,
\* visible, user
WithInfo(object, info, pb) ==
    IF info.has_info
        THEN [uid_from_signed(object, info.uid) EXCEPT
                 !.version = info.version,
                 !.changeset = info.changeset,
                 !.timestamp = info.timestamp * pb.m_date_factor,
                 !.visible = IF info.has_visible THEN info.visible ELSE TRUE,
                 !.user = StringTableS(pb.stringtable, info.user_sid)]
        ELSE [object EXCEPT !.user = ""]

\* the loop over keys: add_tag(s(keys(tag)), s(vals(tag)))
RECURSIVE TagList(_, _, _, _)
TagList(keys, vals, tag, st) ==
    IF ~(tag < Len(keys)) THEN <<>>
    ELSE <<<<StringTableS(st, At(keys, tag)), StringTableS(st, At(vals, tag))>>>>
             \o TagList(keys, vals, tag + 1, st)

\* parse_node_group, one node
ParseNode(pbf_node, pb) ==
    LET node == WithInfo([NewObject("node") EXCEPT !.id = pbf_node.id],
                         pbf_node.info, pb)
    IN  [node EXCEPT
            !.location = IF node.visible
                THEN <<Scale(pbf_node.lon, pb.granularity, pb.lon_offset),
                       Scale(pbf_node.lat, pb.granularity, pb.lat_offset)>>
                ELSE <<>>,
            !.tags = TagList(pbf_node.keys, pbf_node.vals, 0, pb.stringtable)]

\* the loop over refs with the reference taken as it stands
RECURSIVE WayNodesAbsolute(_, _, _)
WayNodesAbsolute(refs, i, ref) ==
    IF ~(i < Len(refs)) THEN <<>>
    ELSE <<At(refs, i)>> \o WayNodesAbsolute(refs, i + 1, At(refs, i))

\* the loop over refs: ref += refs(i); add_way_node(ref)
RECURSIVE WayNodes(_, _, _)
WayNodes(refs, i, ref) ==
    IF ~(i < Len(refs)) THEN <<>>
    ELSE <<ref + At(refs, i)>> \o WayNodes(refs, i + 1, ref + At(refs, i))

\* parse_way_group, one way
ParseWay(pbf_way, pb) ==
    [WithInfo([NewObject("way") EXCEPT !.id = pbf_way.id], pbf_way.info, pb)
        EXCEPT !.nodes = WayNodes(pbf_way.refs, 0, 0),
               !.tags = TagList(pbf_way.keys, pbf_way.vals, 0, pb.stringtable)]

\* osmium::io::detail::osmpbf_membertype_to_item_type
osmpbf_membertype_to_item_type(mt) ==
    CASE mt = 0 -> "node" [] mt = 1 -> "way" [] mt = 2 -> "relation"
      [] OTHER -> "undefined"

\* the loop over types with the member id taken as it stands
RECURSIVE RelationMembersAbsolute(_, _, _, _)
RelationMembersAbsolute(pbf_relation, i, ref, st) ==
    IF ~(i < Len(pbf_relation.types)) THEN <<>>
    ELSE <<[type |-> osmpbf_membertype_to_item_type(At(pbf_relation.types, i)),
            ref |-> At(pbf_relation.memids, i),
            role |-> StringTableS(st, At(pbf_relation.roles_sid, i))]>>
         \o RelationMembersAbsolute(pbf_relation, i + 1,
                                    At(pbf_relation.memids, i), st)

\* the loop over types: ref += memids(i); add_member(type, ref, role)
RECURSIVE RelationMembers(_, _, _, _)
RelationMembers(pbf_relation, i, ref, st) ==
    IF ~(i < Len(pbf_relation.types)) THEN <<>>
    ELSE <<[type |-> osmpbf_membertype_to_item_type(At(pbf_relation.types, i)),
            ref |-> ref + At(pbf_relation.memids, i),
            role |-> StringTableS(st, At(pbf_relation.roles_sid, i))]>>
         \o RelationMembers(pbf_relation, i + 1,
                            ref + At(pbf_relation.memids, i), st)

\* parse_relation_group, one relation
ParseRelation(pbf_relation, pb) ==
    [WithInfo([NewObject("relation") EXCEPT !.id = pbf_relation.id],
              pbf_relation.info, pb)
        EXCEPT !.members = RelationMembers(pbf_relation, 0, 0, pb.stringtable),
               !.tags = TagList(pbf_relation.keys, pbf_relation.vals, 0,
                                pb.stringtable)]

\* the while loop of add_tags: the tags up to the next 0 and the position
\* after it
RECURSIVE AddTagsLoop(_, _, _, _)
AddTagsLoop(keys_vals, pos, tags, st) ==
    IF ~(pos < Len(keys_vals)) THEN [n |-> pos, tags |-> tags]
    ELSE IF At(keys_vals, pos) = 0 THEN [n |-> pos + 1, tags |-> tags]
    ELSE AddTagsLoop(keys_vals, pos + 2,
             Append(tags, <<StringTableS(st, At(keys_vals, pos)),
                            StringTableS(st, At(keys_vals, pos + 1))>>),
             st)

\* add_tags returning n where it finds the 0 of a node without tags
add_tagsAtSentinel(dense, pos, st) ==
    IF pos >= Len(dense.keys_vals)
        THEN [n |-> pos, tags |-> <<>>, tl_builder |-> FALSE]
    ELSE IF At(dense.keys_vals, pos) = 0
        THEN [n |-> pos, tags |-> <<>>, tl_builder |-> FALSE]
    ELSE LET loop == AddTagsLoop(dense.keys_vals, pos, <<>>, st)
         IN  [n |-> loop.n, tags |-> loop.tags, tl_builder |-> TRUE]

\* PBFPrimitiveBlockParser::add_tags: the position it returns, the tags it
\* adds, and whether it has constructed a TagListBuilder
add_tags(dense, pos, st) ==
    IF pos >= Len(dense.keys_vals)
        THEN [n |-> pos, tags |-> <<>>, tl_builder |-> FALSE]
    ELSE IF At(dense.keys_vals, pos) = 0
        THEN [n |-> pos + 1, tags |-> <<>>, tl_builder |-> FALSE]
    ELSE LET loop == AddTagsLoop(dense.keys_vals, pos, <<>>, st)
         IN  [n |-> loop.n, tags |-> loop.tags, tl_builder |-> TRUE]

\* the accumulators of parse_dense_node_group
DenseStart ==
    [id |-> 0, latitude |-> 0, longitude |-> 0, uid |-> 0, user_sid |-> 0,
     changeset |-> 0, timestamp |-> 0, tag |-> 0]

\* the accumulators replaced by the entries of node i
DenseAddAbsolute(last, dense, i) ==
    LET l == [last EXCEPT !.id = At(dense.id, i),
                          !.latitude = At(dense.lat, i),
                          !.longitude = At(dense.lon, i)]
    IN  IF dense.has_denseinfo
            THEN [l EXCEPT !.changeset = At(dense.denseinfo.changeset, i),
                           !.timestamp = At(dense.denseinfo.timestamp, i),
                           !.uid = At(dense.denseinfo.uid, i),
                           !.user_sid = At(dense.denseinfo.user_sid, i)]
            ELSE l

\* the accumulators after the deltas of node i
DenseAdd(last, dense, i) ==
    LET l == [last EXCEPT !.id = @ + At(dense.id, i),
                          !.latitude = @ + At(dense.lat, i),
                          !.longitude = @ + At(dense.lon, i)]
    IN  IF dense.has_denseinfo
            THEN [l EXCEPT !.changeset = @ + At(dense.denseinfo.changeset, i),
                           !.timestamp = @ + At(dense.denseinfo.timestamp, i),
                           !.uid = @ + At(dense.denseinfo.uid, i),
                           !.user_sid = @ + At(dense.denseinfo.user_sid, i)]
            ELSE l

\* builder.add_user(user) on a name that does not fit into what is left of
\* m_buffer: the buffer grows and the object under construction moves
Grows(user) == user = Huge

\* the node parse_dense_node_group builds from the accumulators.  After
\* add_user, `node` still refers to where the object was: when the buffer
\* has grown, node.location(...) does not reach the object, which keeps its
\* undefined location
DenseNode(last, dense, i, pb) ==
    LET visible == IF dense.has_denseinfo /\ Len(dense.denseinfo.visible) > 0
                       THEN dense.denseinfo.visible[i + 1] ELSE TRUE
        n0 == [NewObject("node") EXCEPT !.id = last.id]
        n1 == IF dense.has_denseinfo
                  THEN [uid_from_signed(n0, last.uid) EXCEPT
                           !.version = At(dense.denseinfo.version, i),
                           !.changeset = last.changeset,
                           !.timestamp = last.timestamp * pb.m_date_factor,
                           !.visible = visible,
                           !.user = StringTableS(pb.stringtable, last.user_sid)]
                  ELSE n0
    IN  [n1 EXCEPT
            !.location = IF n1.visible /\ ~Grows(n1.user)
                THEN <<Scale(last.longitude, pb.granularity, pb.lon_offset),
                       Scale(last.latitude, pb.granularity, pb.lat_offset)>>
                ELSE <<>>,
            !.tags = add_tags(dense, last.tag, pb.stringtable).tags]

\* the loop of parse_dense_node_group with the accumulators of the caller
RECURSIVE DenseLoop(_, _, _, _)
DenseLoop(dense, i, last, pb) ==
    IF ~(i < Len(dense.id)) THEN <<>>
    ELSE LET l == DenseAdd(last, dense, i)
         IN  <<DenseNode(l, dense, i, pb)>>
                 \o DenseLoop(dense, i + 1,
                        [l EXCEPT !.tag = add_tags(dense, l.tag, pb.stringtable).n],
                        pb)

\* PBFPrimitiveBlockParser::parse_dense_node_group
parse_dense_node_group(group, pb) == DenseLoop(group.dense, 0, DenseStart, pb)

\* PBFPrimitiveBlockParser::parse_way_group
parse_way_group(group, pb) ==
    [i \in 1..Len(group.ways) |-> ParseWay(group.ways[i], pb)]

\* PBFPrimitiveBlockParser::parse_relation_group
parse_relation_group(group, pb) ==
    [i \in 1..Len(group.relations) |-> ParseRelation(group.relations[i], pb)]

\* PBFPrimitiveBlockParser::parse_node_group
parse_node_group(group, pb) ==
    [i \in 1..Len(group.nodes) |-> ParseNode(group.nodes[i], pb)]

BlockReturns(buffer) == [kind |-> "returned", what |-> "", buffer |-> buffer]
BlockThrows(what) == [kind |-> "thrown", what |-> what, buffer |-> <<>>]
BlockAborts == [kind |-> "aborted", what |-> "out of bounds", buffer |-> <<>>]

\* the body of the loop over the groups with the read types ignored
ParseGroupUnfiltered(group, pb, read_types) ==
    IF group.has_dense THEN BlockReturns(parse_dense_node_group(group, pb))
    ELSE IF Len(group.ways) # 0 THEN BlockReturns(parse_way_group(group, pb))
    ELSE IF Len(group.relations) # 0
        THEN BlockReturns(parse_relation_group(group, pb))
    ELSE IF Len(group.nodes) # 0 THEN BlockReturns(parse_node_group(group, pb))
    ELSE BlockThrows("Group of unknown type.")

\* the body of the loop over the groups taking the first kind that is both
\* present and requested
ParseGroupFirstRequested(group, pb, read_types) ==
    IF group.has_dense /\ "node" \in read_types
        THEN BlockReturns(parse_dense_node_group(group, pb))
    ELSE IF Len(group.ways) # 0 /\ "way" \in read_types
        THEN BlockReturns(parse_way_group(group, pb))
    ELSE IF Len(group.relations) # 0 /\ "relation" \in read_types
        THEN BlockReturns(parse_relation_group(group, pb))
    ELSE IF Len(group.nodes) # 0 /\ "node" \in read_types
        THEN BlockReturns(parse_node_group(group, pb))
    ELSE IF group.has_dense \/ Len(group.ways) # 0 \/ Len(group.relations) # 0
                \/ Len(group.nodes) # 0
        THEN BlockReturns(<<>>)
    ELSE BlockThrows("Group of unknown type.")

\* the body of the loop over the groups in operator(): what the group adds
\* to m_buffer, or the exception
ParseGroup(group, pb, read_types) ==
    IF group.has_dense
        THEN IF "node" \in read_types
                 THEN BlockReturns(parse_dense_node_group(group, pb))
                 ELSE BlockReturns(<<>>)
    ELSE IF Len(group.ways) # 0
        THEN IF "way" \in read_types
                 THEN BlockReturns(parse_way_group(group, pb))
                 ELSE BlockReturns(<<>>)
    ELSE IF Len(group.relations) # 0
        THEN IF "relation" \in read_types
                 THEN BlockReturns(parse_relation_group(group, pb))
                 ELSE BlockReturns(<<>>)
    ELSE IF Len(group.nodes) # 0
        THEN IF "node" \in read_types
                 THEN BlockReturns(parse_node_group(group, pb))
                 ELSE BlockReturns(<<>>)
    ELSE BlockThrows("Group of unknown type.")

\* a string of the object was read from outside the string table
ReadOutside(object) ==
    \/ object.user = Garbage
    \/ \E t \in DOMAIN object.tags : Garbage \in {object.tags[t][1], object.tags[t][2]}
    \/ \E m \in DOMAIN object.members : object.members[m].role = Garbage

\* parse_dense_node_group has used `node` after add_user moved the object
UsedAfterMove(group, buffer) ==
    group.has_dense /\ \E k \in DOMAIN buffer : Grows(buffer[k].user)

\* the loop over the groups with what the earlier groups added to m_buffer
\* kept when a group throws
RECURSIVE ParseGroupsPartial(_, _, _, _, _)
ParseGroupsPartial(pb, i, m_buffer, read_types, ubv) ==
    IF ~(i < Len(pb.primitivegroup)) THEN BlockReturns(m_buffer)
    ELSE LET g == ParseGroup(pb.primitivegroup[i + 1], pb, read_types)
         IN  IF g.kind = "thrown" THEN [g EXCEPT !.buffer = m_buffer]
             ELSE IF ubv = "crash"
                     /\ \/ \E k \in DOMAIN g.buffer : ReadOutside(g.buffer[k])
                        \/ UsedAfterMove(pb.primitivegroup[i + 1], g.buffer)
                 THEN BlockAborts
             ELSE ParseGroupsPartial(pb, i + 1, m_buffer \o g.buffer, read_types, ubv)

\* the loop over the groups in operator(); a read outside the string table
\* or through a moved object's reference either ends the program
\* (ubv = "crash") or goes to whatever memory is there.  An exception leaves
\* operator() without m_buffer
RECURSIVE ParseGroups(_, _, _, _, _)
ParseGroups(pb, i, m_buffer, read_types, ubv) ==
    IF ~(i < Len(pb.primitivegroup)) THEN BlockReturns(m_buffer)
    ELSE LET g == ParseGroup(pb.primitivegroup[i + 1], pb, read_types)
         IN  IF g.kind = "thrown" THEN g
             ELSE IF ubv = "crash"
                     /\ \/ \E k \in DOMAIN g.buffer : ReadOutside(g.buffer[k])
                        \/ UsedAfterMove(pb.primitivegroup[i + 1], g.buffer)
                 THEN BlockAborts
             ELSE ParseGroups(pb, i + 1, m_buffer \o g.buffer, read_types, ubv)

\* the members with m_date_factor left as the constructor sets it
ParserMembersAsConstructed(pbf_primitive_block) ==
    [stringtable |-> pbf_primitive_block.stringtable,
     lon_offset |-> pbf_primitive_block.lon_offset,
     lat_offset |-> pbf_primitive_block.lat_offset,
     m_date_factor |-> 1000,
     granularity |-> pbf_primitive_block.granularity,
     primitivegroup |-> pbf_primitive_block.primitivegroup]

\* the members operator() sets from the block, and the block's groups
ParserMembers(pbf_primitive_block) ==
    [stringtable |-> pbf_primitive_block.stringtable,
     lon_offset |-> pbf_primitive_block.lon_offset,
     lat_offset |-> pbf_primitive_block.lat_offset,
     m_date_factor |-> pbf_primitive_block.date_granularity \div 1000,
     granularity |-> pbf_primitive_block.granularity,
     primitivegroup |-> pbf_primitive_block.primitivegroup]

\* PBFPrimitiveBlockParser::operator()
PrimitiveBlockParserCall(pbf_primitive_block, read_types, ubv) ==
    IF ~pbf_primitive_block.parses
        THEN BlockThrows("Failed to parse PrimitiveBlock.")
    ELSE ParseGroups(ParserMembers(pbf_primitive_block), 0, <<>>, read_types, ubv)

\* a PBFPrimitiveBlockParser is constructed on a block and called
ParsePrimitiveBlock ==
    /\ ~aborted
    /\ d_pc = "block"
    /\ result' = PrimitiveBlockParserCall(block, m_read_which_entities, ub)
    /\ aborted' = (result'.kind = "aborted")
    /\ d_pc' = "parsed"
    /\ UNCHANGED <<config_vars, feed, shared_vars, pool_vars, reader_vars,
                   consumer_vars, NDEBUG, ub, blob, m_header, block>>

\* ------------------------------------------------------------------------
\* The parser's 64-bit arithmetic
\* ------------------------------------------------------------------------

\* a 64-bit value is written as four 16-bit limbs, the most significant
\* first; a 32-bit value as two
Limb == 2^16
SignBit == 2^15

\* the int64_t of a small integer
Int64(v) == <<IF v < 0 THEN Limb - 1 ELSE 0, IF v < 0 THEN Limb - 1 ELSE 0,
              (v \div Limb) % Limb, v % Limb>>

\* x + y on 64 bits, the carry out of the top limb dropped: += on a
\* uint64_t, and what the processor's addition gives for int64_t
Add64(x, y) ==
    LET s4 == x[4] + y[4]
        s3 == x[3] + y[3] + s4 \div Limb
        s2 == x[2] + y[2] + s3 \div Limb
        s1 == x[1] + y[1] + s2 \div Limb
    IN  <<s1 % Limb, s2 % Limb, s3 % Limb, s4 % Limb>>

\* the int64_t (int32_t) with these bits is negative
Negative(x) == x[1] >= SignBit

\* x + y is not an int64_t
SignedOverflow(x, y) ==
    Negative(x) = Negative(y) /\ Negative(Add64(x, y)) # Negative(x)

\* one delta-coded array of a way or of a dense group: refs and ids are
\* sint64 (up to INT64_MAX, down to INT64_MIN), uids are sint32 (up to
\* INT32_MAX, down to INT32_MIN)
DeltaArrays ==
    [field : {"refs", "id"},
     deltas : SeqsUpTo({Int64(1), Int64(-1), Int64(5),
                        <<SignBit - 1, Limb - 1, Limb - 1, Limb - 1>>,
                        <<SignBit, 0, 0, 0>>}, MaxDeltas)]
        \cup [field : {"uid"},
              deltas : SeqsUpTo({Int64(1), Int64(-1), Int64(5),
                                 <<0, 0, SignBit - 1, Limb - 1>>,
                                 <<Limb - 1, Limb - 1, SignBit, 0>>}, MaxDeltas)]

\* parse_way_group: uint64_t ref = 0; ref += refs(i); add_way_node(ref)
\* (parse_relation_group sums memids in the same way)
RECURSIVE WayNodes64(_, _, _)
WayNodes64(refs, i, ref) ==
    IF ~(i < Len(refs)) THEN <<>>
    ELSE <<Add64(ref, refs[i + 1])>>
             \o WayNodes64(refs, i + 1, Add64(ref, refs[i + 1]))

\* parse_dense_node_group: int64_t last = 0; last += deltas(i).  A sum that
\* is not an int64_t is undefined: the program ends there, or goes on with
\* what the processor's addition gives
RECURSIVE DenseSums64(_, _, _, _)
DenseSums64(deltas, i, last, ubv) ==
    IF ~(i < Len(deltas)) THEN BlockReturns(<<>>)
    ELSE IF ubv = "crash" /\ SignedOverflow(last, deltas[i + 1]) THEN BlockAborts
    ELSE LET rest == DenseSums64(deltas, i + 1, Add64(last, deltas[i + 1]), ubv)
         IN  IF rest.kind = "aborted" THEN rest
             ELSE BlockReturns(<<Add64(last, deltas[i + 1])>> \o rest.buffer)

\* node.uid_from_signed(last_dense_uid): the parameter is an int32_t, the
\* low 32 bits of the int64_t argument
uid_from_signed64(last_dense_uid) ==
    LET uid == <<last_dense_uid[3], last_dense_uid[4]>>
    IN  IF Negative(uid) THEN <<0, 0>> ELSE uid

\* the refs of one way are summed
ParseWayRefs ==
    /\ ~aborted
    /\ d_pc = "deltas"
    /\ block.field = "refs"
    /\ result' = BlockReturns(WayNodes64(block.deltas, 0, Int64(0)))
    /\ d_pc' = "summed"
    /\ UNCHANGED <<config_vars, feed, shared_vars, pool_vars, reader_vars,
                   consumer_vars, aborted, NDEBUG, ub, blob, m_header, block>>

\* the ids or the uids of one dense group are summed; a uid goes through
\* uid_from_signed
ParseDenseSums ==
    /\ ~aborted
    /\ d_pc = "deltas"
    /\ block.field \in {"id", "uid"}
    /\ LET sums == DenseSums64(block.deltas, 0, Int64(0), ub)
       IN  result' = IF block.field = "uid" /\ sums.kind = "returned"
                         THEN BlockReturns([k \in DOMAIN sums.buffer |->
                                               uid_from_signed64(sums.buffer[k])])
                         ELSE sums
    /\ aborted' = (result'.kind = "aborted")
    /\ d_pc' = "summed"
    /\ UNCHANGED <<config_vars, feed, shared_vars, pool_vars, reader_vars,
                   consumer_vars, NDEBUG, ub, blob, m_header, block>>

\* ------------------------------------------------------------------------
\* The geometry factory (osmium::geom::GeometryFactory)
\* ------------------------------------------------------------------------

\* the location a default-constructed osmium::Location holds: both
\* components the reserved value
Undefined == <<>>

\* osmium::Location::operator bool
IsDefined(location) == location # Undefined

\* what a factory is called with: a location for create_point, a way node
\* list and the two options for create_linestring
GeometryCalls ==
    [call : {"create_point"}, location : {Undefined, <<1, 1>>, <<2, 2>>}]
        \cup [call : {"create_linestring"},
              wnl : SeqsUpTo({Undefined, <<1, 1>>, <<2, 2>>}, MaxWayNodes),
              unique : BOOLEAN, reverse : BOOLEAN]

\* the geometry returned, or the geometry_error thrown with the locations
\* the geometry under construction had been given
GeomReturns(locations) == [kind |-> "returned", what |-> "", buffer |-> locations]
GeomThrows(locations) ==
    [kind |-> "thrown", what |-> "location is undefined", buffer |-> locations]

\* GeometryFactory::create_point(const osmium::Location)
create_point(location) ==
    IF IsDefined(location) THEN GeomReturns(<<location>>) ELSE GeomThrows(<<>>)

\* the way nodes in the order the loop visits them: from wnl.size()-1 down
\* to 0 if reverse, else from begin() to end()
Visited(wnl, reverse) ==
    IF reverse THEN [i \in 1..Len(wnl) |-> wnl[Len(wnl) + 1 - i]] ELSE wnl

\* the loops of create_linestring for unique: a location equal to
\* last_location is passed over
RECURSIVE LinestringUnique(_, _, _, _)
LinestringUnique(locations, i, last_location, added) ==
    IF i > Len(locations) THEN GeomReturns(added)
    ELSE IF last_location # locations[i]
        THEN IF IsDefined(locations[i])
                 THEN LinestringUnique(locations, i + 1, locations[i],
                                       Append(added, locations[i]))
                 ELSE GeomThrows(added)
    ELSE LinestringUnique(locations, i + 1, last_location, added)

\* the loops of create_linestring for every location, without the test of
\* last_location
RECURSIVE LinestringAll(_, _, _)
LinestringAll(locations, i, added) ==
    IF i > Len(locations) THEN GeomReturns(added)
    ELSE IF IsDefined(locations[i])
        THEN LinestringAll(locations, i + 1, Append(added, locations[i]))
    ELSE GeomThrows(added)

\* GeometryFactory::create_linestring(const osmium::WayNodeList&, bool, bool)
create_linestring(wnl, unique, reverse) ==
    IF unique THEN LinestringUnique(Visited(wnl, reverse), 1, Undefined, <<>>)
    ELSE LinestringAll(Visited(wnl, reverse), 1, <<>>)

\* a factory is asked for a point
CreatePoint ==
    /\ ~aborted
    /\ d_pc = "geometry"
    /\ block.call = "create_point"
    /\ result' = create_point(block.location)
    /\ d_pc' = "made"
    /\ UNCHANGED <<config_vars, feed, shared_vars, pool_vars, reader_vars,
                   consumer_vars, aborted, NDEBUG, ub, blob, m_header, block>>

\* a factory is asked for a linestring
CreateLinestring ==
    /\ ~aborted
    /\ d_pc = "geometry"
    /\ block.call = "create_linestring"
    /\ result' = create_linestring(block.wnl, block.unique, block.reverse)
    /\ d_pc' = "made"
    /\ UNCHANGED <<config_vars, feed, shared_vars, pool_vars, reader_vars,
                   consumer_vars, aborted, NDEBUG, ub, blob, m_header, block>>

\* ------------------------------------------------------------------------
\* The byte-stream adapter (InputQueueReader)
\* ------------------------------------------------------------------------

\* the chunks of the given sizes, the bytes of the stream numbered from
\* `from` on; a chunk of size 0 is the source's end mark
RECURSIVE Chunks(_, _)
Chunks(sizes, from) ==
    IF sizes = <<>> THEN <<>>
    ELSE <<[k \in 1..Head(sizes) |-> from + k - 1]>>
             \o Chunks(Tail(sizes), from + Head(sizes))

\* the input queue: up to MaxChunks chunks of up to three bytes
InputQueues == {Chunks(sizes, 1) : sizes \in SeqsUpTo(0..3, MaxChunks)}

\* the sizes operator() is called with: the length prefix, and BlobHeaders
\* and Blobs of 0, 1 and 2 bytes
ReadSizes == {0, 1, 2, 4}

\* the adapter after construction: nothing buffered, nothing handed out
NewInputQueueReader ==
    [m_buffer |-> <<>>, data |-> <<>>, pulled |-> <<>>, ok |-> TRUE]

\* the while loop of operator(): chunks are popped and appended to m_buffer
\* until it holds `size` bytes or an empty chunk comes; blocked when the
\* queue runs dry first (wait_and_pop does not return)
RECURSIVE Fill(_, _, _, _)
Fill(m_queue_in, m_buffer, pulled, size) ==
    IF ~(Len(m_buffer) < size)
        THEN [queue |-> m_queue_in, m_buffer |-> m_buffer, pulled |-> pulled,
              ok |-> TRUE, blocked |-> FALSE]
    ELSE IF m_queue_in = <<>>
        THEN [queue |-> m_queue_in, m_buffer |-> m_buffer, pulled |-> pulled,
              ok |-> FALSE, blocked |-> TRUE]
    ELSE IF Head(m_queue_in) = <<>>
        THEN [queue |-> Tail(m_queue_in), m_buffer |-> m_buffer,
              pulled |-> Append(pulled, <<>>), ok |-> FALSE, blocked |-> FALSE]
    ELSE Fill(Tail(m_queue_in), m_buffer \o Head(m_queue_in),
              Append(pulled, Head(m_queue_in)), size)

\* operator() without m_buffer.erase(0, size)
InputQueueReaderCallNoErase(m_queue_in, reader, size) ==
    LET f == Fill(m_queue_in, reader.m_buffer, reader.pulled, size)
    IN  [queue |-> f.queue, blocked |-> f.blocked,
         reader |-> [m_buffer |-> f.m_buffer,
                     data |-> IF f.ok THEN reader.data \o SubSeq(f.m_buffer, 1, size)
                                      ELSE reader.data,
                     pulled |-> f.pulled, ok |-> f.ok]]

\* InputQueueReader::operator(): what is left in the queue, whether the
\* call returns at all, and the adapter afterwards; `data` is every byte
\* copied out so far, `pulled` every chunk popped so far
InputQueueReaderCall(m_queue_in, reader, size) ==
    LET f == Fill(m_queue_in, reader.m_buffer, reader.pulled, size)
    IN  [queue |-> f.queue, blocked |-> f.blocked,
         reader |-> [m_buffer |-> IF f.ok
                                      THEN SubSeq(f.m_buffer, size + 1, Len(f.m_buffer))
                                      ELSE f.m_buffer,
                     data |-> IF f.ok THEN reader.data \o SubSeq(f.m_buffer, 1, size)
                                      ELSE reader.data,
                     pulled |-> f.pulled, ok |-> f.ok]]

\* one call of the adapter for `size` bytes that returns
InputQueueRead ==
    /\ ~aborted
    /\ d_pc = "input"
    /\ \E size \in ReadSizes :
           LET call == InputQueueReaderCall(block, result, size)
           IN  /\ ~call.blocked
               /\ block' = call.queue
               /\ result' = call.reader
    /\ UNCHANGED <<config_vars, feed, shared_vars, pool_vars, reader_vars,
                   consumer_vars, aborted, NDEBUG, ub, blob, m_header, d_pc>>

\* ------------------------------------------------------------------------
\* Hexadecimal digits (string_util.hpp)
\* ------------------------------------------------------------------------

\* lookup_hex of append_utf8_encoded_string and of append_debug_encoded_string
LowerHex == <<"0", "1", "2", "3", "4", "5", "6", "7",
              "8", "9", "a", "b", "c", "d", "e", "f">>
UpperHex == <<"0", "1", "2", "3", "4", "5", "6", "7",
              "8", "9", "A", "B", "C", "D", "E", "F">>

\* a uint32_t is written as its eight 4-bit groups, the most significant
\* first; each group is 0, 1 or 0xf
HexValues == [1..8 -> {0, 1, 15}]

\* the calls of append_min_4_hex_digits: after '%' with the lower-case
\* digits, after "<U+" with the upper-case ones
HexCalls ==
    [out : {<<"%">>}, value : HexValues, hex_digits : {LowerHex}]
        \cup [out : {<<"<", "U", "+">>}, value : HexValues, hex_digits : {UpperHex}]

\* v = value & mask; if (v) { out += hex_digits[v >> shift]; } for the
\* group at place k
AppendIfSet(out, value, k, hex_digits) ==
    IF value[k] # 0 THEN Append(out, hex_digits[value[k] + 1]) ELSE out

\* out += hex_digits[(value >> shift) & 0xfU] for the groups from place k on
RECURSIVE AppendDigits(_, _, _, _)
AppendDigits(out, value, k, hex_digits) ==
    IF k > Len(value) THEN out
    ELSE AppendDigits(Append(out, hex_digits[value[k] + 1]), value, k + 1,
                      hex_digits)

\* append_min_4_hex_digits
append_min_4_hex_digits(out, value, hex_digits) ==
    LET o1 == AppendIfSet(out, value, 1, hex_digits)
        o2 == AppendIfSet(o1, value, 2, hex_digits)
        o3 == AppendIfSet(o2, value, 3, hex_digits)
        o4 == AppendIfSet(o3, value, 4, hex_digits)
    IN  AppendDigits(o4, value, 5, hex_digits)

\* a code point is written with four or more hexadecimal digits
AppendMin4HexDigits ==
    /\ ~aborted
    /\ d_pc = "hex"
    /\ result' = append_min_4_hex_digits(block.out, block.value, block.hex_digits)
    /\ d_pc' = "appended"
    /\ UNCHANGED <<config_vars, feed, shared_vars, pool_vars, reader_vars,
                   consumer_vars, aborted, NDEBUG, ub, blob, m_header, block>>

\* ------------------------------------------------------------------------
\* Specifications
\* ------------------------------------------------------------------------

Reader ==
    \/ ReadFrame
    \/ Submit
    \/ SetValue
    \/ WaitWork
    \/ WaitBuffers
    \/ CheckDone
    \/ ReaderSetDone

Consumer ==
    \/ Open
    \/ ReadCheck
    \/ ReadPop
    \/ ReadGet
    \/ DtorSetDone
    \/ DtorJoin

Workers ==
    \/ WorkerTake
    \/ WorkerFinish

Next == Reader \/ Consumer \/ Workers

\* short streams of every kind of frame
Spec == Init /\ [][Next]_vars

\* long streams of well-formed frames, one pool thread
SpecLong == InitLong /\ [][Next]_vars

\* one Blob in front of a header blob parser and of a data blob parser
InitBlob ==
    /\ PipelineInit({}, {}, 0, 1)
    /\ m_use_thread_pool = TRUE
    /\ m_read_which_entities \in {{}, {"node", "way", "relation"}}
    /\ NDEBUG \in BOOLEAN
    /\ ub = "none"
    /\ blob \in Blobs
    /\ m_header = EmptyHeader
    /\ block = <<>>
    /\ result = <<>>
    /\ d_pc = "blob"

NextBlob == HeaderBlobDoit \/ DataBlobCall

SpecBlob == InitBlob /\ [][NextBlob]_vars

\* one PrimitiveBlock in front of a primitive block parser
InitBlock ==
    /\ PipelineInit({}, {}, 0, 1)
    /\ m_use_thread_pool = TRUE
    /\ m_read_which_entities
           \in {{}, {"way"}, {"relation"}, {"node", "relation"}, AllTypes}
    /\ NDEBUG = TRUE
    /\ ub \in {"crash", "garbage"}
    /\ blob = <<>>
    /\ m_header = EmptyHeader
    /\ block \in PrimitiveBlocks
    /\ result = <<>>
    /\ d_pc = "block"

NextBlock == ParsePrimitiveBlock

SpecBlock == InitBlock /\ [][NextBlock]_vars

\* one delta-coded array in front of the loop that sums it
InitDeltas ==
    /\ PipelineInit({}, {}, 0, 1)
    /\ m_use_thread_pool = TRUE
    /\ m_read_which_entities = AllTypes
    /\ NDEBUG = TRUE
    /\ ub \in {"crash", "garbage"}
    /\ blob = <<>>
    /\ m_header = EmptyHeader
    /\ block \in DeltaArrays
    /\ result = <<>>
    /\ d_pc = "deltas"

\* one call of a geometry factory
InitGeometry ==
    /\ PipelineInit({}, {}, 0, 1)
    /\ m_use_thread_pool = TRUE
    /\ m_read_which_entities = AllTypes
    /\ NDEBUG = TRUE
    /\ ub = "none"
    /\ blob = <<>>
    /\ m_header = EmptyHeader
    /\ block \in GeometryCalls
    /\ result = <<>>
    /\ d_pc = "geometry"

NextGeometry == CreatePoint \/ CreateLinestring

SpecGeometry == InitGeometry /\ [][NextGeometry]_vars

NextDeltas == ParseWayRefs \/ ParseDenseSums

SpecDeltas == InitDeltas /\ [][NextDeltas]_vars

\* one call of append_min_4_hex_digits
InitHex ==
    /\ PipelineInit({}, {}, 0, 1)
    /\ m_use_thread_pool = TRUE
    /\ m_read_which_entities = AllTypes
    /\ NDEBUG = TRUE
    /\ ub = "none"
    /\ blob = <<>>
    /\ m_header = EmptyHeader
    /\ block \in HexCalls
    /\ result = <<>>
    /\ d_pc = "hex"

NextHex == AppendMin4HexDigits

SpecHex == InitHex /\ [][NextHex]_vars

\* a byte-stream adapter on an input queue
InitInput ==
    /\ PipelineInit({}, {}, 0, 1)
    /\ m_use_thread_pool = TRUE
    /\ m_read_which_entities = AllTypes
    /\ NDEBUG = TRUE
    /\ ub = "none"
    /\ blob = <<>>
    /\ m_header = EmptyHeader
    /\ block \in InputQueues
    /\ result = NewInputQueueReader
    /\ d_pc = "input"

NextInput == InputQueueRead

SpecInput == InitInput /\ [][NextInput]_vars


\* ------------------------------------------------------------------------
\* Properties
\* ------------------------------------------------------------------------

\* the results of read() that came out of a future (not the empty buffer)
FromFuture(k) == returned[k].kind # "empty"

\* C1: the k-th result of read() is that of the k-th data blob, whatever the
\* order in which the tasks finished: the result queue holds the futures of
\* the latest blobs in frame order, and read() hands out the futures of
\* blobs 0, 1, 2, ... each once.
C1_ResultsInBlobOrder ==
    /\ \A k \in 1..Len(returned) : FromFuture(k) => returned[k].blob_num = k - 1
    /\ \A i \in 1..Len(m_queue) : m_queue[i] = Pushed - Len(m_queue) + i - 1
    /\ c_pc = "get" => buffer_future = Pushed - Len(m_queue) - 1

\* two blobs delivered in order although the task of the second finished first
C1_Witness ==
    /\ m_use_thread_pool
    /\ Len(finish_order) >= 2 /\ finish_order[1] = 1 /\ finish_order[2] = 0
    /\ Len(returned) >= 2
    /\ returned[1].kind = "buffer" /\ returned[2].kind = "buffer"

\* C2 (the claim as stated): with an entity kind requested and no
\* cancellation, read() is never left waiting on the result queue once the
\* reader thread has reached EOF and every future has been handed out.
C2_ReadNeverStuckAtEof ==
    (m_read_which_entities # {} /\ ~aborted /\ r_pc = "exit" /\ m_queue = <<>>)
        => c_pc # "pop"

\* C3: in thread-pool mode a read() raises an error exactly when the blob
\* its future belongs to fails to decode, and the error is that of the
\* decoder; the reads of the other blobs return buffers.
C3_WorkerErrorAtItsRead ==
    m_use_thread_pool =>
        \A k \in 1..Len(returned) :
            FromFuture(k) =>
                /\ (returned[k].kind = "error")
                        <=> (blobs[returned[k].blob_num + 1] = "bad")
                /\ returned[k].kind = "error"
                        => returned[k].what = "failed to parse blob"

\* blob 0 returned normally, then the read for blob 1 raised its error
C3_Witness ==
    /\ m_use_thread_pool
    /\ Len(returned) >= 2
    /\ returned[1].kind = "buffer" /\ returned[1].blob_num = 0
    /\ returned[2].kind = "error" /\ returned[2].blob_num = 1

\* a framing error: read_blob_header or the blob's read has thrown
FramingError(f) ==
    LET h == ReadBlobHeader(f, OSMData)
    IN  h.thrown \/ (h.size # 0 /\ BlobParserCtor(h.size, f).thrown)

\* C4 (the claim as stated): after a framing error on a data frame the
\* reader thread has merely exited: the program runs on, so the futures
\* queued before the error can still be read.
C4_QueuedBuffersSurviveFramingError ==
    (r_pc = "thrown" /\ FramingError(cur) /\ m_queue # <<>>) => ~aborted

C6_BufferQueueAtMostMax == Len(m_queue) <= max_buffer_queue_size

\* C6 (amended): the result queue never holds more than
\* max_buffer_queue_size + 1 futures: the reader reads a frame and pushes its
\* future only while the queue holds at most max_buffer_queue_size.
C6_BufferQueueAtMostMaxPlusOne ==
    /\ Len(m_queue) <= max_buffer_queue_size + 1
    /\ r_pc \in {"read", "submit"} => Len(m_queue) <= max_buffer_queue_size

\* the queue is one over its threshold and the reader is held back
C6_Witness ==
    /\ ~m_done
    /\ r_pc = "wait_buffers"
    /\ Len(m_queue) = max_buffer_queue_size + 1

\* C7: in thread-pool mode, while m_done is not set, the pool's work queue
\* never holds more than max_work_queue_size tasks, and the reader reads a
\* frame or submits a task only while it holds fewer.
C7_WorkQueueAtMostMax ==
    m_use_thread_pool =>
        /\ ~m_done => Len(pool_queue) <= max_work_queue_size
        /\ r_pc \in {"read", "submit"} => Len(pool_queue) < max_work_queue_size

\* the work queue is at its threshold and the reader is held back
C7_Witness ==
    /\ m_use_thread_pool
    /\ ~m_done
    /\ r_pc = "wait_work"
    /\ Len(pool_queue) = max_work_queue_size

RECURSIVE GoodBuffers(_)
\* the buffers a sequential decoder yields for the payloads, in order
GoodBuffers(payloads) ==
    IF payloads = <<>> THEN <<>>
    ELSE IF Head(payloads) = "bad" THEN GoodBuffers(Tail(payloads))
    ELSE <<Decode(Head(payloads))>> \o GoodBuffers(Tail(payloads))

RECURSIVE BuffersReturned(_)
\* the buffers read() has returned, in order
BuffersReturned(results) ==
    IF results = <<>> THEN <<>>
    ELSE IF Head(results).kind = "buffer"
        THEN <<Head(results).buffer>> \o BuffersReturned(Tail(results))
    ELSE BuffersReturned(Tail(results))

IsPrefix(a, b) == Len(a) <= Len(b) /\ a = SubSeq(b, 1, Len(a))

\* C8: with or without the thread pool, and whatever the scheduling, the
\* buffers read() returns are the decoded data blobs of the input in input
\* order: a function of the input alone.
C8_OutputIsFunctionOfInput ==
    IsPrefix(BuffersReturned(returned), GoodBuffers(blobs))

\* without the thread pool, two blobs of different content were returned
C8_Witness ==
    /\ ~m_use_thread_pool
    /\ BuffersReturned(returned) = <<Decode("a"), Decode("b")>>

\* C9 (the claim as stated): open() succeeds only on a first frame of type
\* "OSMHeader", and a data blob reaches a parser only from a frame of type
\* "OSMData".
C9_OnlyExpectedTypeAccepted ==
    /\ (c_pc # "start" /\ open_error = "") => first.type = OSMHeader
    /\ r_pc = "submit" => cur.type = OSMData

\* the BlobHeader of f is accepted by read_blob_header(expected_type)
HeaderFine(f, expected_type) ==
    /\ ~f.eof
    /\ f.hlen <= max_blob_header_size
    /\ f.hbytes >= f.hlen
    /\ f.hparse
    /\ CStr(f.type) = expected_type

\* all of f's blob is there and decodes
BlobFine(f) ==
    /\ f.datasize > 0
    /\ f.dbytes >= f.datasize
    /\ f.payload \notin {"bad", "none"}

\* C10: both caps are inclusive.  A length prefix equal to
\* max_blob_header_size is accepted and one above it is rejected; a datasize
\* equal to max_uncompressed_blob_size is accepted, and one above it or a
\* negative one is rejected with only the prefix and the BlobHeader taken
\* from the input.  The same holds for the frame open() reads and for the
\* frames the reader thread reads.
C10_CapsInclusive ==
    /\ (r_pc # "none" /\ ~cur.eof) =>
        /\ cur.hlen > max_blob_header_size
            => r_pc = "thrown" /\ r_error = "Invalid BlobHeader size"
        /\ (HeaderFine(cur, OSMData) /\ BlobFine(cur)
                /\ cur.datasize <= max_uncompressed_blob_size)
            => /\ r_error = ""
               /\ blobs # <<>> /\ blobs[Len(blobs)] = cur.payload
               /\ r_used = 4 + cur.hlen + cur.datasize
        /\ (HeaderFine(cur, OSMData)
                /\ (cur.datasize > max_uncompressed_blob_size \/ cur.datasize < 0))
            => /\ r_pc = "thrown" /\ r_error = "invalid blob size"
               /\ r_used = 4 + cur.hlen
    /\ (c_pc # "start" /\ ~first.eof) =>
        /\ first.hlen > max_blob_header_size
            => open_error = "Invalid BlobHeader size"
        /\ (HeaderFine(first, OSMHeader) /\ BlobFine(first)
                /\ first.datasize <= max_uncompressed_blob_size)
            => open_error = "" /\ first_used = 4 + first.hlen + first.datasize
        /\ (HeaderFine(first, OSMHeader)
                /\ (first.datasize > max_uncompressed_blob_size \/ first.datasize < 0))
            => open_error = "invalid blob size" /\ first_used = 4 + first.hlen

\* a header frame with a BlobHeader at the cap was accepted by open(), and
\* a data frame with a blob at the cap was handed to a parser
C10_Witness ==
    /\ first.hlen = max_blob_header_size /\ open_error = "" /\ c_pc = "idle"
    /\ cur.datasize = max_uncompressed_blob_size /\ r_pc = "wait_buffers"

\* C12: on an empty input open() fails at the framing stage with an error
\* that reports EOF; no header blob parser is constructed or run, and the
\* reader thread is not started.
C12_EmptyInputFailsAtFraming ==
    (c_pc # "start" /\ first = EofFrame) =>
        /\ c_pc = "failed"
        /\ OpenStage(first) = "read_blob_header"
        /\ open_error = "EOF before OSMHeader"
        /\ r_pc = "none"

\* C11 (the claim as stated): a zlib blob whose raw_size exceeds
\* max_uncompressed_blob_size makes operator() throw; nothing is inflated
\* and handed to handle_blob.
C11_OversizeRawSizeIsDecodeError ==
    (/\ d_pc = "call_done"
     /\ blob.parses /\ ~blob.has_raw /\ blob.has_zlib_data
     /\ blob.raw_size > max_uncompressed_blob_size)
        => result.kind = "thrown" /\ result.handed = <<>>

\* the state after the blob parser's call, for a Blob that parsed
BlobParsed == d_pc \in {"doit_done", "call_done"} /\ blob.parses

\* C13: a blob with raw has raw handed to handle_blob; else one with
\* zlib_data goes through inflation (its inflated data is handed on when it
\* inflates to raw_size bytes within the cap); else one with lzma_data fails
\* with the lzma error; else the blob fails as holding no data.  doit and
\* operator() hand the same data on.
C13_BlobDispatch ==
    /\ BlobParsed =>
        IF blob.has_raw THEN result.handed = <<blob.raw>>
        ELSE IF blob.has_zlib_data THEN
            /\ result.what \notin {"lzma blobs not implemented", "Blob contains no data"}
            /\ (/\ blob.raw_size <= max_uncompressed_blob_size
                /\ blob.zlib_data.size = blob.raw_size)
                   => result.handed = <<blob.zlib_data.inflates_to>>
        ELSE IF blob.has_lzma_data THEN
            /\ result.kind = "thrown"
            /\ result.what = "lzma blobs not implemented"
            /\ result.handed = <<>>
        ELSE
            /\ result.kind = "thrown"
            /\ result.what = "Blob contains no data"
            /\ result.handed = <<>>
    /\ d_pc \in {"blob", "doit_done", "call_done"} =>
        /\ BlobDoit(blob, EmptyHeader, NDEBUG).handed
               = BlobCall(blob, EmptyHeader, NDEBUG).handed
        /\ BlobDoit(blob, EmptyHeader, NDEBUG).kind \in {"thrown", "aborted"}
               /\ BlobDoit(blob, EmptyHeader, NDEBUG).handed = <<>>
               => BlobCall(blob, EmptyHeader, NDEBUG)
                      = BlobDoit(blob, EmptyHeader, NDEBUG)

\* operator() has inflated the zlib_data of a blob that also has lzma_data
C13_Witness ==
    /\ d_pc = "call_done"
    /\ blob.parses /\ ~blob.has_raw /\ blob.has_zlib_data /\ blob.has_lzma_data
    /\ result.kind = "returned"
    /\ result.handed = <<blob.zlib_data.inflates_to>>

SupportedFeatures == {"OsmSchema-V0.6", "DenseNodes", "HistoricalInformation"}

Named(features) == {features[i] : i \in DOMAIN features}

FirstUnsupported(features) ==
    features[CHOOSE i \in DOMAIN features :
                 /\ features[i] \notin SupportedFeatures
                 /\ \A j \in 1..(i - 1) : features[j] \in SupportedFeatures]

OptionKeys(header) == {o[1] : o \in header.options}

\* C14: a header block whose required features are all among the three
\* supported ones is accepted, "DenseNodes" and "HistoricalInformation"
\* setting their flags and "OsmSchema-V0.6" nothing; any other required
\* feature makes open() fail with 'Required feature not supported: <name>',
\* with no generator, bounding box or replication field set and the reader
\* thread not started.
C14_RequiredFeatures ==
    (d_pc = "doit_done" /\ result.handed # <<>> /\ result.handed[1].parses) =>
        LET features == result.handed[1].required_features
        IN  IF Named(features) \subseteq SupportedFeatures THEN
                /\ result.kind = "returned"
                /\ c_pc = "idle"
                /\ ("pbf_dense_nodes" \in OptionKeys(m_header))
                       <=> ("DenseNodes" \in Named(features))
                /\ m_header.has_multiple_object_versions
                       <=> ("HistoricalInformation" \in Named(features))
            ELSE
                /\ result.kind = "thrown"
                /\ result.what = "Required feature not supported: "
                /\ result.arg = FirstUnsupported(features)
                /\ open_error = result.what
                /\ c_pc = "failed"
                /\ r_pc = "none"
                /\ OptionKeys(m_header) \subseteq {"pbf_dense_nodes"}
                /\ m_header.boxes = <<>>

\* open() has failed on the second required feature of a header block that
\* has a writing program, a bounding box and replication fields
C14_Witness ==
    /\ d_pc = "doit_done"
    /\ result.kind = "thrown"
    /\ result.arg = "Sort.Type_then_ID"
    /\ result.handed # <<>>
    /\ result.handed[1].required_features = <<"DenseNodes", "Sort.Type_then_ID">>
    /\ result.handed[1].has_writingprogram
    /\ result.handed[1].has_bbox
    /\ result.handed[1].has_osmosis_replication
    /\ m_read_which_entities # {}

\* a block has been parsed and a buffer returned
Parsed == d_pc = "parsed" /\ result.kind = "returned"

Ways(buffer) == SelectSeq(buffer, LAMBDA object : object.type = "way")

\* C15: decoding with only ways requested emits ways only, and where the
\* decode of the same block with all three kinds requested returns a buffer,
\* the ways-only decode returns exactly the ways of that buffer, in order.
C15_FilterCorrectness ==
    (d_pc = "parsed" /\ m_read_which_entities = {"way"}) =>
        LET all == PrimitiveBlockParserCall(block, AllTypes, ub)
        IN  /\ \A k \in DOMAIN result.buffer : result.buffer[k].type = "way"
            /\ all.kind = "returned" =>
                   result.kind = "returned" /\ result.buffer = Ways(all.buffer)
            /\ all.kind = "thrown" => result = all

\* a ways-only decode has skipped a dense group and decoded a way group
C15_Witness ==
    /\ Parsed
    /\ m_read_which_entities = {"way"}
    /\ Len(block.primitivegroup) = 2
    /\ block.primitivegroup[1].has_dense
    /\ Len(block.primitivegroup[1].dense.id) = 3
    /\ Len(result.buffer) = 2
    /\ Len(PrimitiveBlockParserCall(block, AllTypes, ub).buffer) = 5

\* the sum of the first k entries
RECURSIVE Sum(_, _)
Sum(deltas, k) == IF k = 0 THEN 0 ELSE Sum(deltas, k - 1) + deltas[k]

\* the groups of the block are all dense groups
AllDense == \A g \in DOMAIN block.primitivegroup : block.primitivegroup[g].has_dense

\* the place in the buffer of node i of group g, when all groups are dense
RECURSIVE DensePlace(_, _)
DensePlace(g, i) ==
    IF g = 1 THEN i
    ELSE Len(block.primitivegroup[g - 1].dense.id) + DensePlace(g - 1, i)

\* node i of a dense group follows the dense decoding law, given how the
\* summed uid and the summed timestamp are emitted
DenseLaw(node, dense, i, uid_of(_), timestamp_of(_)) ==
    /\ node.id = Sum(dense.id, i)
    /\ node.location # <<>> =>
           node.location =
               <<TruncDiv(Sum(dense.lon, i) * block.granularity + block.lon_offset, 100),
                 TruncDiv(Sum(dense.lat, i) * block.granularity + block.lat_offset, 100)>>
    /\ dense.has_denseinfo =>
           /\ node.version = dense.denseinfo.version[i]
           /\ node.changeset = Sum(dense.denseinfo.changeset, i)
           /\ node.uid = uid_of(Sum(dense.denseinfo.uid, i))
           /\ node.timestamp = timestamp_of(Sum(dense.denseinfo.timestamp, i))
           /\ Sum(dense.denseinfo.user_sid, i) \in 0..(Len(block.stringtable) - 1)
                  => node.user = block.stringtable[Sum(dense.denseinfo.user_sid, i) + 1]

DenseLawHolds(uid_of(_), timestamp_of(_)) ==
    (Parsed /\ AllDense /\ "node" \in m_read_which_entities) =>
        \A g \in DOMAIN block.primitivegroup :
            \A i \in DOMAIN block.primitivegroup[g].dense.id :
                /\ DensePlace(g, i) \in DOMAIN result.buffer
                /\ DenseLaw(result.buffer[DensePlace(g, i)],
                            block.primitivegroup[g].dense, i, uid_of, timestamp_of)

ThreeDenseBlock ==
    /\ block.parses
    /\ block.granularity = 100 /\ block.lat_offset = 0 /\ block.lon_offset = 0
    /\ Len(block.primitivegroup) = 1
    /\ block.primitivegroup[1].has_dense
    /\ block.primitivegroup[1].dense.id = <<1, 1, 1>>
    /\ block.primitivegroup[1].dense.lat = <<100, 0, -50>>
    /\ block.primitivegroup[1].dense.lon = <<200, 0, 0>>
    /\ ~block.primitivegroup[1].dense.has_denseinfo
    /\ block.primitivegroup[1].dense.keys_vals = <<>>

Ids(buffer) == [k \in DOMAIN buffer |-> buffer[k].id]
Locations(buffer) == [k \in DOMAIN buffer |-> buffer[k].location]

\* C17 (the claim as stated): the three nodes have locations (20000, 10000),
\* (20000, 10000) and (20000, 5000).
C17_ThreeDenseNodesUndivided ==
    (d_pc = "parsed" /\ ThreeDenseBlock /\ "node" \in m_read_which_entities) =>
        /\ result.kind = "returned"
        /\ Ids(result.buffer) = <<1, 2, 3>>
        /\ Locations(result.buffer)
               = <<<<20000, 10000>>, <<20000, 10000>>, <<20000, 5000>>>>

\* C17 (amended): the three nodes have ids 1, 2, 3 and locations (lon, lat)
\* (200, 100), (200, 100) and (200, 50), that is (sum * 100 + 0) / 100.
C17_ThreeDenseNodes ==
    (d_pc = "parsed" /\ ThreeDenseBlock /\ "node" \in m_read_which_entities) =>
        /\ result.kind = "returned"
        /\ Ids(result.buffer) = <<1, 2, 3>>
        /\ Locations(result.buffer) = <<<<200, 100>>, <<200, 100>>, <<200, 50>>>>

C17_Witness ==
    /\ Parsed /\ ThreeDenseBlock /\ "node" \in m_read_which_entities
    /\ Len(result.buffer) = 3

\* the ways (relations) of the block's groups, when the groups are all way
\* (relation) groups
RECURSIVE FlatWays(_)
FlatWays(groups) ==
    IF groups = <<>> THEN <<>> ELSE Head(groups).ways \o FlatWays(Tail(groups))

RECURSIVE FlatRelations(_)
FlatRelations(groups) ==
    IF groups = <<>> THEN <<>>
    ELSE Head(groups).relations \o FlatRelations(Tail(groups))

AllWayGroups ==
    \A g \in DOMAIN block.primitivegroup :
        ~block.primitivegroup[g].has_dense /\ block.primitivegroup[g].ways # <<>>

\* C18: the k-th node reference of every way is the sum of the first k+1
\* entries of its refs, starting from 0 for each way; as many references
\* as refs, in the same order.
C18_WayRefs ==
    (Parsed /\ AllWayGroups /\ "way" \in m_read_which_entities) =>
        LET ways == FlatWays(block.primitivegroup)
        IN  /\ Len(result.buffer) = Len(ways)
            /\ \A w \in DOMAIN ways :
                   /\ Len(result.buffer[w].nodes) = Len(ways[w].refs)
                   /\ \A k \in DOMAIN ways[w].refs :
                          result.buffer[w].nodes[k] = Sum(ways[w].refs, k)

\* refs [10,-3,5] have been decoded to [10,7,12] and the next way's [4,1]
\* to [4,5]
C18_Witness ==
    /\ Parsed /\ AllWayGroups /\ "way" \in m_read_which_entities
    /\ Len(result.buffer) >= 2
    /\ result.buffer[1].nodes = <<10, 7, 12>>
    /\ result.buffer[2].nodes = <<4, 5>>

AllRelationGroups ==
    \A g \in DOMAIN block.primitivegroup :
        /\ ~block.primitivegroup[g].has_dense
        /\ block.primitivegroup[g].ways = <<>>
        /\ block.primitivegroup[g].relations # <<>>

MemberTypeName(t) == IF t = 0 THEN "node" ELSE IF t = 1 THEN "way" ELSE "relation"

\* C19: member k of every relation has the type named by types[k], the sum
\* of the first k+1 memids (starting from 0 for each relation) as its ref
\* and the string at roles_sid[k] as its role, in the order of the arrays.
C19_RelationMembers ==
    (Parsed /\ AllRelationGroups /\ "relation" \in m_read_which_entities) =>
        LET relations == FlatRelations(block.primitivegroup)
        IN  /\ Len(result.buffer) = Len(relations)
            /\ \A r \in DOMAIN relations :
                   /\ Len(result.buffer[r].members) = Len(relations[r].types)
                   /\ \A k \in DOMAIN relations[r].types :
                       LET member == result.buffer[r].members[k]
                       IN  /\ member.type = MemberTypeName(relations[r].types[k])
                           /\ member.ref = Sum(relations[r].memids, k)
                           /\ relations[r].roles_sid[k] \in 0..(Len(block.stringtable) - 1)
                                  => member.role =
                                         block.stringtable[relations[r].roles_sid[k] + 1]

\* types [0,1,2], memids [5,10,-3], roles_sid [2,3,2] over the table
\* ["","","outer","inner"] have been decoded, and a second relation after it
C19_Witness ==
    /\ Parsed /\ AllRelationGroups /\ "relation" \in m_read_which_entities
    /\ block.stringtable = <<"", "", "outer", "inner">>
    /\ Len(result.buffer) >= 2
    /\ result.buffer[1].members =
           <<[type |-> "node", ref |-> 5, role |-> "outer"],
             [type |-> "way", ref |-> 15, role |-> "inner"],
             [type |-> "relation", ref |-> 12, role |-> "outer"]>>
    /\ result.buffer[2].members[1].ref = -2

\* C20 (the claim as stated): a block with a key, value, user or role index
\* outside its string table makes the decode throw, and no object is
\* emitted with a string read from outside the table.
C20_BadStringIndexIsDecodeError ==
    d_pc = "parsed" =>
        /\ \A k \in DOMAIN result.buffer : ~ReadOutside(result.buffer[k])
        /\ (/\ block.parses
            /\ m_read_which_entities = AllTypes
            /\ \E g \in DOMAIN block.primitivegroup :
                   block.primitivegroup[g] \in BadIndexGroups)
               => result.kind \in {"thrown"}

\* the number of 0 entries of keys_vals
Zeros(keys_vals) == Cardinality({k \in DOMAIN keys_vals : keys_vals[k] = 0})

\* keys_vals is there and does not hold one 0 for each node
Misaligned(dense) ==
    dense.keys_vals # <<>> /\ Zeros(dense.keys_vals) # Len(dense.id)

\* C21: when a dense group that is decoded has a keys_vals stream with more
\* or fewer 0 sentinels than the group has nodes, the decode of the block
\* fails with an error.
C21_MisalignedDenseIsDecodeError ==
    (/\ d_pc = "parsed"
     /\ block.parses
     /\ "node" \in m_read_which_entities
     /\ \E g \in DOMAIN block.primitivegroup :
            /\ block.primitivegroup[g].has_dense
            /\ Misaligned(block.primitivegroup[g].dense))
        => result.kind = "thrown"

\* the visibility the claim gives an entity with this Info
VisibleByInfo(info) ==
    IF info.has_info /\ info.has_visible THEN info.visible ELSE TRUE

\* the visibility the claim gives node i of a dense group
VisibleByDenseInfo(dense, i) ==
    IF dense.has_denseinfo /\ dense.denseinfo.visible # <<>>
        THEN dense.denseinfo.visible[i] ELSE TRUE

\* C24: an entity is visible unless its Info (for a dense node, a non-empty
\* DenseInfo visible array) says otherwise, and a node that is emitted has
\* a location if and only if it is visible.
C24_VisibilityAndLocation ==
    Parsed =>
        /\ \A k \in DOMAIN result.buffer :
               result.buffer[k].type = "node" =>
                   (result.buffer[k].location # <<>> <=> result.buffer[k].visible)
        /\ (Len(block.primitivegroup) = 1 /\ result.buffer # <<>>) =>
               LET group == block.primitivegroup[1]
               IN  \A k \in DOMAIN result.buffer :
                       result.buffer[k].visible =
                           IF group.has_dense
                               THEN VisibleByDenseInfo(group.dense, k)
                           ELSE IF group.ways # <<>>
                               THEN VisibleByInfo(group.ways[k].info)
                           ELSE IF group.relations # <<>>
                               THEN VisibleByInfo(group.relations[k].info)
                           ELSE VisibleByInfo(group.nodes[k].info)

\* the alternative the dispatch takes for a group: the first whose content
\* is there (and, as the claim has it, whose kind is requested as well)
Alternative(group, read_types, requested_only) ==
    IF group.has_dense /\ (requested_only => "node" \in read_types)
        THEN [kind |-> "node", size |-> Len(group.dense.id)]
    ELSE IF group.ways # <<>> /\ (requested_only => "way" \in read_types)
        THEN [kind |-> "way", size |-> Len(group.ways)]
    ELSE IF group.relations # <<>> /\ (requested_only => "relation" \in read_types)
        THEN [kind |-> "relation", size |-> Len(group.relations)]
    ELSE IF group.nodes # <<>> /\ (requested_only => "node" \in read_types)
        THEN [kind |-> "node", size |-> Len(group.nodes)]
    ELSE [kind |-> "none", size |-> 0]

\* the kinds of the entities the first k groups emit, in order
RECURSIVE ExpectedKinds(_, _, _, _)
ExpectedKinds(groups, k, read_types, requested_only) ==
    IF k = 0 THEN <<>>
    ELSE LET a == Alternative(groups[k], read_types, requested_only)
         IN  ExpectedKinds(groups, k - 1, read_types, requested_only)
                 \o [j \in 1..(IF a.kind \in read_types THEN a.size ELSE 0)
                        |-> a.kind]

Kinds(buffer) == [k \in DOMAIN buffer |-> buffer[k].type]

\* C27 (the claim as stated): a group emits the entities of its first
\* alternative, in the order dense / ways / relations / plain nodes, that is
\* both present and requested.
C27_FirstPresentAndRequested ==
    Parsed =>
        Kinds(result.buffer)
            = ExpectedKinds(block.primitivegroup, Len(block.primitivegroup),
                            m_read_which_entities, TRUE)

\* C27 (amended): a group is dispatched on its first alternative, in the
\* order dense / ways / relations / plain nodes, whose content is present,
\* whatever is requested; it emits that alternative's entities if their kind
\* is requested and nothing otherwise.
C27_GroupDispatch ==
    Parsed =>
        Kinds(result.buffer)
            = ExpectedKinds(block.primitivegroup, Len(block.primitivegroup),
                            m_read_which_entities, FALSE)

\* a group of ways and relations read with only relations requested, and a
\* group of dense nodes and ways read with only ways requested, have emitted
\* nothing
C27_Witness ==
    /\ Parsed
    /\ Len(block.primitivegroup) = 1
    /\ result.buffer = <<>>
    /\ LET group == block.primitivegroup[1]
       IN  \/ /\ group.ways # <<>> /\ group.relations # <<>>
              /\ m_read_which_entities = {"relation"}
           \/ /\ group.has_dense /\ group.ways # <<>>
              /\ m_read_which_entities = {"way"}

\* a group without dense nodes, ways, relations and nodes
UnknownGroup(group) ==
    /\ ~group.has_dense
    /\ group.ways = <<>> /\ group.relations = <<>> /\ group.nodes = <<>>

\* C28: whatever is requested, a block with a group that has no dense nodes,
\* ways, relations or nodes fails with "Group of unknown type." unless the
\* program has ended before, and a block that fails hands out no entity.
C28_UnknownGroupFailsBlock ==
    d_pc = "parsed" =>
        /\ (/\ block.parses
            /\ \E g \in DOMAIN block.primitivegroup :
                   UnknownGroup(block.primitivegroup[g])
            /\ result.kind # "aborted")
               => result.kind = "thrown" /\ result.what = "Group of unknown type."
        /\ result.kind # "returned" => result.buffer = <<>>

\* a block has failed at its second group after its first group, decoded on
\* its own, gave entities
C28_Witness ==
    /\ d_pc = "parsed"
    /\ Len(block.primitivegroup) = 2
    /\ UnknownGroup(block.primitivegroup[2])
    /\ result.kind = "thrown"
    /\ result.buffer = <<>>
    /\ LET alone == [block EXCEPT !.primitivegroup = <<block.primitivegroup[1]>>]
       IN  PrimitiveBlockParserCall(alone, m_read_which_entities, ub).buffer # <<>>

\* an array of deltas has been summed
Summed(field) == d_pc = "summed" /\ block.field = field /\ result.kind = "returned"

\* the 64-bit sum of the first k deltas
RECURSIVE Sum64(_, _)
Sum64(deltas, k) == IF k = 0 THEN Int64(0) ELSE Add64(Sum64(deltas, k - 1), deltas[k])

\* the sum of the first k deltas, for some k, is not an int64_t
SumOverflows(deltas) ==
    \E k \in DOMAIN deltas : SignedOverflow(Sum64(deltas, k - 1), deltas[k])

\* C22: the uid of dense node i is the 64-bit sum of the first i uid deltas
\* when that sum is not negative, and 0 when it is.
C22_UidOrAnonymous ==
    Summed("uid") =>
        \A i \in DOMAIN block.deltas :
            <<0, 0>> \o result.buffer[i]
                = IF Negative(Sum64(block.deltas, i)) THEN Int64(0)
                  ELSE Sum64(block.deltas, i)

\* C23: when a sum of way refs or of dense ids leaves the
\* 64-bit range, the decode fails with an error and emits nothing.
C23_OverflowIsDecodeError ==
    (/\ d_pc = "summed"
     /\ block.field \in {"refs", "id"}
     /\ SumOverflows(block.deltas))
        => result.kind = "thrown" /\ result.buffer = <<>>

\* C25: create_point fails with geometry_error for an undefined location,
\* and create_linestring fails with it whenever some way node of the list
\* has an undefined location, whatever unique and reverse are; the
\* linestring has been given no undefined location.
C25_UndefinedLocationFails ==
    d_pc = "made" =>
        /\ (block.call = "create_point" /\ ~IsDefined(block.location))
               => result.kind = "thrown"
        /\ (/\ block.call = "create_linestring"
            /\ \E i \in DOMAIN block.wnl : ~IsDefined(block.wnl[i]))
               => result.kind = "thrown"
        /\ \A k \in DOMAIN result.buffer : IsDefined(result.buffer[k])

\* C26: a source that ends inside the 4-byte length prefix, with some of its
\* bytes pending, is a framing error: open() fails in read_blob_header, and
\* the reader thread ends with an error, not as at the end of the input.
C26_TruncatedPrefixIsFramingError ==
    /\ (c_pc # "start" /\ first = TruncatedPrefix) =>
           c_pc = "failed" /\ OpenStage(first) = "read_blob_header"
    /\ (r_pc \notin {"none", "read"} /\ cur = TruncatedPrefix) =>
           r_pc = "thrown" /\ r_error # ""

\* C29: once m_done is set the reader is held by neither wait, it pushes at
\* most one more future, and when it finds m_done set after its waits it
\* returns without another turn of the loop.
C29_ReaderStopsAfterDone ==
    /\ [](m_done =>
            /\ r_pc = "wait_work" => ~WorkQueueFull
            /\ r_pc = "wait_buffers" => ~BufferQueueFull
            /\ Pushed <= pushed_at_done + 1)
    /\ [][(m_done /\ r_pc = "check_done") => r_pc' \in {"check_done", "exit"}]_vars

\* the destructor has set m_done while the reader was about to push the
\* future that fills the result queue beyond its bound: the reader has
\* pushed it and returned with input left
C29_Witness ==
    /\ m_done
    /\ r_pc = "exit"
    /\ Pushed = pushed_at_done + 1
    /\ Len(m_queue) > max_buffer_queue_size
    /\ feed.left > 0

RawValues(group) ==
    IF group.has_dense
        THEN [i \in DOMAIN group.dense.id |->
                 [timestamp |-> IF group.dense.has_denseinfo
                                    THEN Sum(group.dense.denseinfo.timestamp, i)
                                    ELSE 0,
                  lon |-> Sum(group.dense.lon, i),
                  lat |-> Sum(group.dense.lat, i)]]
    ELSE IF group.ways # <<>>
        THEN [i \in DOMAIN group.ways |->
                 [timestamp |-> IF group.ways[i].info.has_info
                                    THEN group.ways[i].info.timestamp ELSE 0,
                  lon |-> 0, lat |-> 0]]
    ELSE IF group.relations # <<>>
        THEN [i \in DOMAIN group.relations |->
                 [timestamp |-> IF group.relations[i].info.has_info
                                    THEN group.relations[i].info.timestamp ELSE 0,
                  lon |-> 0, lat |-> 0]]
    ELSE [i \in DOMAIN group.nodes |->
             [timestamp |-> IF group.nodes[i].info.has_info
                                THEN group.nodes[i].info.timestamp ELSE 0,
              lon |-> group.nodes[i].lon, lat |-> group.nodes[i].lat]]

\* the raw values of the entities the first k groups emit, in order
RECURSIVE ExpectedRaw(_, _, _)
ExpectedRaw(groups, k, read_types) ==
    IF k = 0 THEN <<>>
    ELSE ExpectedRaw(groups, k - 1, read_types)
             \o IF Alternative(groups[k], read_types, FALSE).kind \in read_types
                    THEN RawValues(groups[k]) ELSE <<>>

Raw == ExpectedRaw(block.primitivegroup, Len(block.primitivegroup),
                   m_read_which_entities)

\* C31: every emitted timestamp is the absolute raw timestamp (for a dense
\* node the sum of the deltas so far) times date_granularity / 1000 in
\* integer division, for plain entities and dense nodes alike; with a
\* date_granularity below 1000 every timestamp of the block is 0.
C31_TimestampScaling ==
    Parsed =>
        /\ Len(result.buffer) = Len(Raw)
        /\ \A k \in DOMAIN result.buffer :
               /\ result.buffer[k].timestamp
                      = Raw[k].timestamp * (block.date_granularity \div 1000)
               /\ block.date_granularity < 1000 => result.buffer[k].timestamp = 0

\* a block with date_granularity 2000 holding a dense group with DenseInfo
\* and a group of plain nodes has been decoded: the dense timestamps are
\* the doubled sums 100, 105, 85 and the plain ones the doubled 11 and 12
C31_Witness ==
    /\ Parsed
    /\ block.date_granularity = 2000
    /\ Len(block.primitivegroup) = 2
    /\ block.primitivegroup[1].has_dense
    /\ block.primitivegroup[1].dense.has_denseinfo
    /\ block.primitivegroup[2].nodes # <<>>
    /\ [k \in DOMAIN result.buffer |-> result.buffer[k].timestamp]
           = <<200, 210, 170, 22, 24>>

\* C32: each coordinate of a visible node is (raw * granularity + offset)
\* / 100 truncated toward zero, raw being the node's own value for a plain
\* node and the running sum for a dense node; so a plain and a dense node
\* with the same absolute raw values in one block get the same location.
C32_CoordinateConversion ==
    Parsed =>
        /\ Len(result.buffer) = Len(Raw)
        /\ \A k \in DOMAIN result.buffer :
               (result.buffer[k].type = "node" /\ result.buffer[k].visible) =>
                   result.buffer[k].location
                       = <<TruncDiv(Raw[k].lon * block.granularity
                                        + block.lon_offset, 100),
                           TruncDiv(Raw[k].lat * block.granularity
                                        + block.lat_offset, 100)>>

\* the position just past the first 0 that stands where a key is expected,
\* at or after pos; -1 if keys_vals ends before one
RECURSIVE PastSentinel(_, _)
PastSentinel(keys_vals, pos) ==
    IF pos >= Len(keys_vals) THEN -1
    ELSE IF keys_vals[pos + 1] = 0 THEN pos + 1
    ELSE IF pos + 1 >= Len(keys_vals) THEN -1
    ELSE PastSentinel(keys_vals, pos + 2)

\* the position just past the i-th sentinel; -1 if there is none
RECURSIVE SentinelEnd(_, _)
SentinelEnd(keys_vals, i) ==
    IF i = 0 THEN 0
    ELSE LET before == SentinelEnd(keys_vals, i - 1)
         IN  IF before < 0 THEN -1 ELSE PastSentinel(keys_vals, before)

\* keys_vals is a run of (key, value) pairs and a 0 for each node
WellFormed(dense) ==
    SentinelEnd(dense.keys_vals, Len(dense.id)) = Len(dense.keys_vals)

\* the pairs between the (i-1)-th and the i-th sentinel, as strings
Segment(keys_vals, i, st) ==
    LET start == SentinelEnd(keys_vals, i - 1)
    IN  [j \in 1..((SentinelEnd(keys_vals, i) - 1 - start) \div 2) |->
            <<StringTableS(st, keys_vals[start + 2 * j - 1]),
              StringTableS(st, keys_vals[start + 2 * j])>>]

\* C33: with a keys_vals that holds one 0 sentinel for each node, add_tags
\* called with the cursor just past sentinel i-1 gives node i the pairs up
\* to sentinel i, in order, and returns the cursor just past sentinel i; a
\* node without pairs gets no tag list; the nodes emitted carry these tags.
C33_DenseTagAssignment ==
    (Parsed /\ AllDense /\ "node" \in m_read_which_entities) =>
        \A g \in DOMAIN block.primitivegroup :
            LET dense == block.primitivegroup[g].dense
            IN  WellFormed(dense) =>
                    \A i \in DOMAIN dense.id :
                        LET segment == Segment(dense.keys_vals, i, block.stringtable)
                            added == add_tags(dense,
                                              SentinelEnd(dense.keys_vals, i - 1),
                                              block.stringtable)
                        IN  /\ added.tags = segment
                            /\ added.n = SentinelEnd(dense.keys_vals, i)
                            /\ segment = <<>> => ~added.tl_builder
                            /\ result.buffer[DensePlace(g, i)].tags = segment

\* a dense group whose first node has two tags, whose second has none and
\* whose third has one has been decoded
C33_Witness ==
    /\ Parsed /\ AllDense /\ "node" \in m_read_which_entities
    /\ Len(block.primitivegroup) = 1
    /\ block.primitivegroup[1].dense.keys_vals = <<1, 2, 3, 2, 0, 0, 2, 1, 0>>
    /\ block.stringtable = <<"", "k", "v", "u">>
    /\ [k \in DOMAIN result.buffer |-> result.buffer[k].tags]
           = << <<<<"k", "v">>, <<"u", "v">>>>, <<>>, <<<<"v", "k">>>> >>

\* the cursor of parse_dense_node_group after i nodes
RECURSIVE CursorAfter(_, _, _)
CursorAfter(dense, i, st) ==
    IF i = 0 THEN 0
    ELSE add_tags(dense, CursorAfter(dense, i - 1, st), st).n

\* C39: whatever keys_vals holds, add_tags reads it only below its size:
\* no string is read for an entry at or past the end, and the cursor it
\* returns is never greater than the size of keys_vals.
C39_CursorWithinKeysVals ==
    (d_pc = "parsed" /\ block.parses /\ "node" \in m_read_which_entities) =>
        \A g \in DOMAIN block.primitivegroup :
            block.primitivegroup[g].has_dense =>
                LET dense == block.primitivegroup[g].dense
                IN  \A i \in 0..Len(dense.id) :
                        CursorAfter(dense, i, block.stringtable)
                            <= Len(dense.keys_vals)

\* the digits a call has appended to out
Appended == SubSeq(result, Len(block.out) + 1, Len(result))

\* the value of one hexadecimal digit
DigitValue(c) == CHOOSE v \in 0..15 : c \in {LowerHex[v + 1], UpperHex[v + 1]}

\* the digits read as a hexadecimal number of 32 bits, as eight 4-bit groups
HexNumber(digits) ==
    [k \in 1..8 |-> IF k <= 8 - Len(digits) THEN 0
                    ELSE DigitValue(digits[k - (8 - Len(digits))])]

\* C34: append_min_4_hex_digits appends at least four hexadecimal digits,
\* with no leading zero beyond the fourth digit from the right, and the
\* digits read as a hexadecimal number are the value.
C34_HexDigitsGiveValue ==
    d_pc = "appended" =>
        /\ SubSeq(result, 1, Len(block.out)) = block.out
        /\ Len(Appended) \in 4..8
        /\ Len(Appended) > 4 => Appended[1] # "0"
        /\ HexNumber(Appended) = block.value

\* C35: after an open() that succeeded with no entity kind requested, so
\* that no reader thread runs, read() returns the empty buffer: it is never
\* left waiting on the result queue.
C35_ReadWithoutReaderReturnsEmpty ==
    (m_read_which_entities = {} /\ r_pc = "none" /\ open_error = "")
        => c_pc # "pop"

\* C36: when read() has returned the end-of-input empty buffer (the
\* destructor has not run yet), the reader has set m_done after its last
\* push and has exited, every handle pushed has been popped and returned,
\* and the stream has no data frame left that the reader has not read.
C36_EndOfInputAfterEveryBlob ==
    c_pc = "eof" =>
        /\ r_pc = "exit"
        /\ pushed_at_done = Pushed
        /\ Pushed = Len(blobs)
        /\ m_queue = <<>>
        /\ Len(returned) = Pushed + 1
        /\ \A k \in 1..Pushed : FromFuture(k)
        /\ cur.eof \/ feed.left = 0

\* C37: the reader leaves its loop for m_done = true only at the end of the
\* input; a frame whose BlobHeader has datasize 0 does not end the loop.
C37_DoneOnlyAtEof ==
    r_pc = "set_done" => cur.eof

\* the bytes of a sequence of chunks, in order
RECURSIVE Flatten(_)
Flatten(chunks) ==
    IF chunks = <<>> THEN <<>> ELSE Head(chunks) \o Flatten(Tail(chunks))

\* C38: after any sequence of reads of the byte-stream adapter, the bytes
\* handed out so far followed by the residual buffer are the bytes of the
\* chunks pulled from the source so far, and together with what the source
\* still holds they are the stream: no byte is lost, doubled or out of
\* place.
C38_BytesConserved ==
    d_pc = "input" =>
        /\ result.data \o result.m_buffer = Flatten(result.pulled)
        /\ LET stream == result.data \o result.m_buffer \o Flatten(block)
           IN  stream = [k \in 1..Len(stream) |-> k]

\* a read of 4 bytes has been served from a chunk of 2 and a chunk of 3
\* bytes: one byte is left in the buffer and one chunk in the source
C38_Witness ==
    /\ d_pc = "input"
    /\ result.pulled = << <<1, 2>>, <<3, 4, 5>> >>
    /\ result.data = <<1, 2, 3, 4>>
    /\ result.m_buffer = <<5>>
    /\ result.ok
    /\ block = << <<6>> >>

====
